---- MODULE Spec2Model ----
(***************************************************************************)
(* Habit tracker: the streak analytics of habit_tracker/analytics over     *)
(* Habit records (habit_tracker/models/habit.py), the HabitManager and     *)
(* AuthManager services (habit_tracker/services) and the SQLStore they     *)
(* write through to (habit_tracker/storage/sql_store.py).                  *)
(*                                                                         *)
(* A datetime is an integer count of hours since the start of proleptic    *)
(* ordinal day 0, a date is a proleptic Gregorian ordinal (the value of    *)
(* date.toordinal()), a timedelta(days=n) is the integer n, and a string   *)
(* is a sequence of one-character strings.                                 *)
(***************************************************************************)
EXTENDS Integers, Sequences, FiniteSets, Bags, TLC

VARIABLES habits, call, habit_by_id, habit_id_counter, storage, db, current_user

\* The fields of a HabitManager besides its habits list, the database behind
\* its storage, and the field of an AuthManager.
manager_vars == <<habit_by_id, habit_id_counter, storage>>
auth_vars == <<current_user>>

vars == <<habits, call, habit_by_id, habit_id_counter, storage, db, current_user>>

\* Python's None, where an integer (a date, a count) may stand instead.
None == -1

Max(a, b) == IF a >= b THEN a ELSE b

(***************************************************************************)
(* Strings: str.lower()                                                    *)
(***************************************************************************)
UpperChars == <<"A","B","C","D","E","F","G","H","I","J","K","L","M",
                "N","O","P","Q","R","S","T","U","V","W","X","Y","Z">>
LowerChars == <<"a","b","c","d","e","f","g","h","i","j","k","l","m",
                "n","o","p","q","r","s","t","u","v","w","x","y","z">>

\* The lower-case letter of each upper-case letter.
UpperToLower ==
    [c \in {UpperChars[i] : i \in 1..Len(UpperChars)} |->
        LowerChars[CHOOSE i \in 1..Len(UpperChars) : UpperChars[i] = c]]

lower_char(c) == IF c \in DOMAIN UpperToLower THEN UpperToLower[c] ELSE c

lower(s) == [i \in 1..Len(s) |-> lower_char(s[i])]

STR_daily == <<"d","a","i","l","y">>
STR_weekly == <<"w","e","e","k","l","y">>
STR_Weekly == <<"W","e","e","k","l","y">>
STR_monthly == <<"m","o","n","t","h","l","y">>
STR_WEEKLY == <<"W","E","E","K","L","Y">>

(***************************************************************************)
(* Calendar: datetime.date(), date.isocalendar(), date.fromisocalendar()   *)
(***************************************************************************)
HoursPerDay == 24

\* datetime.date(): the calendar day of a datetime, its time of day dropped.
dt_date(dt) == dt \div HoursPerDay

\* The datetime of ordinal day d at the given hour.
datetime_at(d, hour) == d * HoursPerDay + hour

\* Number of days before January 1st of year y.
days_before_year(y) ==
    (y - 1) * 365 + (y - 1) \div 4 - (y - 1) \div 100 + (y - 1) \div 400

\* The calendar years the model's dates lie in.
Years == 2019..2023

\* The calendar year of ordinal day d.
year_of(d) ==
    CHOOSE y \in Years : days_before_year(y) < d /\ d <= days_before_year(y + 1)

\* Ordinal of the Monday of ISO week 1 of year y (the week with the year's
\* first Thursday).
isoweek1monday(y) ==
    LET firstday == days_before_year(y) + 1
        firstweekday == (firstday + 6) % 7
        week1monday == firstday - firstweekday
    IN  IF firstweekday > 3 THEN week1monday + 7 ELSE week1monday

\* date.isocalendar(): the ISO year and ISO week of ordinal day d.
isocalendar(d) ==
    LET y == year_of(d)
        week == (d - isoweek1monday(y)) \div 7
    IN  IF d < isoweek1monday(y)
        THEN [year |-> y - 1, week |-> (d - isoweek1monday(y - 1)) \div 7 + 1]
        ELSE IF week >= 52 /\ d >= isoweek1monday(y + 1)
             THEN [year |-> y + 1, week |-> 1]
             ELSE [year |-> y, week |-> week + 1]

\* date.fromisocalendar(year, week, day): the ordinal of that ISO day.
fromisocalendar(year, week, day) ==
    isoweek1monday(year) + (week - 1) * 7 + (day - 1)

(***************************************************************************)
(* sorted(): ascending sequence of a finite set                            *)
(***************************************************************************)
RECURSIVE sorted_dates(_)
sorted_dates(S) ==
    IF S = {} THEN <<>>
    ELSE LET m == CHOOSE x \in S : \A y \in S : x <= y
         IN  <<m>> \o sorted_dates(S \ {m})

\* Python's tuple order on (year, week) pairs.
week_le(a, b) == a[1] < b[1] \/ (a[1] = b[1] /\ a[2] <= b[2])

RECURSIVE sorted_weeks(_)
sorted_weeks(S) ==
    IF S = {} THEN <<>>
    ELSE LET m == CHOOSE x \in S : \A y \in S : week_le(x, y)
         IN  <<m>> \o sorted_weeks(S \ {m})

(***************************************************************************)
(* analytics.py: longest streak helpers                                    *)
(***************************************************************************)
\* longest_daily_scan with the maximum reset on a gap together with the
\* running counter: it returns the length of the last run.
RECURSIVE longest_daily_scan_reset(_, _, _, _)
longest_daily_scan_reset(dates, i, longest, current) ==
    IF i >= Len(dates) THEN longest
    ELSE IF dates[i + 1] = dates[i] + 1
         THEN longest_daily_scan_reset(dates, i + 1, Max(longest, current + 1), current + 1)
         ELSE longest_daily_scan_reset(dates, i + 1, 1, 1)

\* The loop of _longest_daily_streak over zip(dates, dates[1:]), at pair i.
RECURSIVE longest_daily_scan(_, _, _, _)
longest_daily_scan(dates, i, longest, current) ==
    IF i >= Len(dates) THEN longest
    ELSE IF dates[i + 1] = dates[i] + 1
         THEN longest_daily_scan(dates, i + 1, Max(longest, current + 1), current + 1)
         ELSE longest_daily_scan(dates, i + 1, longest, 1)

longest_daily_streak(dates) ==
    IF dates = <<>> THEN 0 ELSE longest_daily_scan(dates, 1, 1, 1)

\* Monday of 2020-W52; ISO year 2020 has 53 weeks.
Day0 == fromisocalendar(2020, 52, 1)
\* Monday of 2021-W52; ISO year 2021 has 52 weeks.
Day1 == fromisocalendar(2021, 52, 1)

\* The (year, week) pair of every date the model's inputs can lead to,
\* computed once.
IsoWeekKeys ==
    [d \in (Day0 - 28)..(Day1 + 28) |-> <<isocalendar(d).year, isocalendar(d).week>>]

\* _iso_week_key: the (year, week) pair of a date.
iso_week_key(d) == IsoWeekKeys[d]

\* weekly_consecutive without the year rollover (week 52/53 -> week 1).
weekly_consecutive_no_rollover(k1, k2) ==
    k2[1] = k1[1] /\ k2[2] = k1[2] + 1

\* weekly_consecutive with the rollover from week 52 alone, week 53 forgotten.
weekly_consecutive_only_52(k1, k2) ==
    \/ (k2[1] = k1[1] /\ k2[2] = k1[2] + 1)
    \/ (k2[1] = k1[1] + 1 /\ k1[2] = 52 /\ k2[2] = 1)

\* The test of _longest_weekly_streak on two adjacent week keys.
weekly_consecutive(k1, k2) ==
    \/ (k2[1] = k1[1] /\ k2[2] = k1[2] + 1)
    \/ (k2[1] = k1[1] + 1 /\ k1[2] \in {52, 53} /\ k2[2] = 1)

\* The loop of _longest_weekly_streak over zip(weeks, weeks[1:]), at pair i.
RECURSIVE longest_weekly_scan(_, _, _, _)
longest_weekly_scan(weeks, i, longest, current) ==
    IF i >= Len(weeks) THEN longest
    ELSE IF weekly_consecutive(weeks[i], weeks[i + 1])
         THEN longest_weekly_scan(weeks, i + 1, Max(longest, current + 1), current + 1)
         ELSE longest_weekly_scan(weeks, i + 1, longest, 1)

longest_weekly_streak(dates) ==
    IF dates = <<>> THEN 0
    ELSE LET weeks == sorted_weeks({iso_week_key(dates[i]) : i \in 1..Len(dates)})
         IN  longest_weekly_scan(weeks, 1, 1, 1)

(***************************************************************************)
(* analytics.py: current streak helpers                                    *)
(***************************************************************************)
\* The while loop of _current_daily_streak.
RECURSIVE current_daily_walk(_, _, _)
current_daily_walk(completed, cur, streak) ==
    IF cur \in completed
    THEN current_daily_walk(completed, cur - 1, streak + 1)
    ELSE streak

\* current_daily_streak without the grace day: only a completion today keeps
\* the streak alive.
current_daily_streak_today_only(dates, today) ==
    IF dates = <<>> THEN 0
    ELSE LET completed == {dates[i] : i \in 1..Len(dates)}
         IN  IF today \in completed
             THEN current_daily_walk(completed, today, 0)
             ELSE 0

\* current_daily_streak that starts over on a completion today: the days
\* before today are not walked when today is completed.
current_daily_streak_restart(dates, today) ==
    IF dates = <<>> THEN 0
    ELSE LET completed == {dates[i] : i \in 1..Len(dates)}
         IN  IF today \in completed
             THEN 1
             ELSE IF (today - 1) \in completed
                  THEN current_daily_walk(completed, today - 1, 0)
                  ELSE 0

\* current_daily_streak anchored at the latest completion in place of today:
\* the streak is alive when the latest completion is yesterday or later, and
\* is counted backward from that completion.
current_daily_streak_from_latest(dates, today) ==
    IF dates = <<>> THEN 0
    ELSE LET completed == {dates[i] : i \in 1..Len(dates)}
             latest == dates[Len(dates)]
         IN  IF latest >= today - 1
             THEN current_daily_walk(completed, latest, 0)
             ELSE 0

current_daily_streak(dates, today) ==
    IF dates = <<>> THEN 0
    ELSE LET completed == {dates[i] : i \in 1..Len(dates)}
         IN  IF today \in completed
             THEN current_daily_walk(completed, today, 0)
             ELSE IF (today - 1) \in completed
                  THEN current_daily_walk(completed, today - 1, 0)
                  ELSE 0

\* prev_iso_week by arithmetic on the week number, every year taken to have
\* 52 weeks.
prev_iso_week_52(year, week) ==
    IF week > 1 THEN <<year, week - 1>> ELSE <<year - 1, 52>>

prev_iso_week(year, week) ==
    LET monday == fromisocalendar(year, week, 1)
        prev_monday == monday - 7
    IN  iso_week_key(prev_monday)

\* The while loop of _current_weekly_streak.
RECURSIVE current_weekly_walk(_, _, _)
current_weekly_walk(completed_weeks, cur, streak) ==
    IF cur \in completed_weeks
    THEN current_weekly_walk(completed_weeks, prev_iso_week(cur[1], cur[2]), streak + 1)
    ELSE streak

current_weekly_streak(dates, today) ==
    IF dates = <<>> THEN 0
    ELSE LET completed_weeks == {iso_week_key(dates[i]) : i \in 1..Len(dates)}
             this_week == iso_week_key(today)
             last_week == prev_iso_week(this_week[1], this_week[2])
         IN  IF this_week \in completed_weeks
             THEN current_weekly_walk(completed_weeks, this_week, 0)
             ELSE IF last_week \in completed_weeks
                  THEN current_weekly_walk(completed_weeks, last_week, 0)
                  ELSE 0

(***************************************************************************)
(* analytics.py: public streak API                                         *)
(***************************************************************************)
\* Insertion of date d into the ascending sequence ds.
RECURSIVE insert_sorted(_, _)
insert_sorted(ds, d) ==
    IF ds = <<>> THEN <<d>>
    ELSE IF d <= Head(ds) THEN <<d>> \o ds
         ELSE <<Head(ds)>> \o insert_sorted(Tail(ds), d)

\* unique_sorted_dates with a list in place of the set: sorted, but one entry
\* for every completion.
RECURSIVE sorted_dates_with_repeats(_)
sorted_dates_with_repeats(completion_dates) ==
    IF completion_dates = <<>> THEN <<>>
    ELSE insert_sorted(sorted_dates_with_repeats(Tail(completion_dates)),
                       dt_date(Head(completion_dates)))

\* sorted({dt.date() for dt in habit.completion_dates})
unique_sorted_dates(completion_dates) ==
    sorted_dates({dt_date(completion_dates[i]) : i \in 1..Len(completion_dates)})

\* calculate_streak with the empty-list guards taken out: the scans start
\* from a streak of 1 whatever the list holds.
calculate_streak_unguarded(habit) ==
    LET dates == unique_sorted_dates(habit.completion_dates)
    IN  IF lower(habit.periodicity) = STR_weekly
        THEN longest_weekly_scan(
                 sorted_weeks({iso_week_key(dates[i]) : i \in 1..Len(dates)}), 1, 1, 1)
        ELSE longest_daily_scan(dates, 1, 1, 1)

\* calculate_streak comparing the periodicity as stored, without lower():
\* only the exact string "weekly" is handled by the weekly rules.
calculate_streak_case_sensitive(habit) ==
    IF habit.completion_dates = <<>> THEN 0
    ELSE LET dates == unique_sorted_dates(habit.completion_dates)
         IN  IF habit.periodicity = STR_weekly
             THEN longest_weekly_streak(dates)
             ELSE longest_daily_streak(dates)

calculate_streak(habit) ==
    IF habit.completion_dates = <<>> THEN 0
    ELSE LET dates == unique_sorted_dates(habit.completion_dates)
         IN  IF lower(habit.periodicity) = STR_weekly
             THEN longest_weekly_streak(dates)
             ELSE longest_daily_streak(dates)

\* reference_date that reads the clock whether or not today was passed.
reference_date_clock(today, clock_today) == clock_today

\* today = today or date.today(): clock_today is what date.today() returns.
reference_date(today, clock_today) ==
    IF today = None THEN clock_today ELSE today

calculate_current_streak(habit, today, clock_today) ==
    IF habit.completion_dates = <<>> THEN 0
    ELSE LET ref == reference_date(today, clock_today)
             dates == unique_sorted_dates(habit.completion_dates)
         IN  IF lower(habit.periodicity) = STR_weekly
             THEN current_weekly_streak(dates, ref)
             ELSE current_daily_streak(dates, ref)

\* longest_streak_overall_scan keeping a single winner: a habit that ties
\* with the running maximum is not added.
RECURSIVE longest_streak_overall_first_max(_, _, _)
longest_streak_overall_first_max(hs, i, acc) ==
    IF i > Len(hs) THEN acc
    ELSE LET streak == calculate_streak(hs[i])
         IN  IF streak > acc.streak
             THEN longest_streak_overall_first_max(hs, i + 1,
                      [habits |-> <<hs[i]>>, streak |-> streak])
             ELSE longest_streak_overall_first_max(hs, i + 1, acc)

\* The loop of longest_streak_overall from habit i on; acc = [habits, streak].
RECURSIVE longest_streak_overall_scan(_, _, _)
longest_streak_overall_scan(hs, i, acc) ==
    IF i > Len(hs) THEN acc
    ELSE LET streak == calculate_streak(hs[i])
         IN  IF streak > acc.streak
             THEN longest_streak_overall_scan(hs, i + 1,
                      [habits |-> <<hs[i]>>, streak |-> streak])
             ELSE IF streak = acc.streak /\ streak > 0
                  THEN longest_streak_overall_scan(hs, i + 1,
                           [habits |-> Append(acc.habits, hs[i]), streak |-> acc.streak])
                  ELSE longest_streak_overall_scan(hs, i + 1, acc)

longest_streak_overall(hs) ==
    longest_streak_overall_scan(hs, 1, [habits |-> <<>>, streak |-> 0])

\* list(habits): a new list of the same Habit objects, in the same order.
list_all_habits(hs) == [i \in 1..Len(hs) |-> hs[i]]

\* list_habits_by_periodicity with lower() applied to the argument alone:
\* the periodicity of a habit is compared as stored.
list_habits_by_periodicity_stored_case(hs, periodicity) ==
    LET p == lower(periodicity)
        matches(h) == h.periodicity = p
    IN  SelectSeq(hs, matches)

\* [h for h in habits if h.periodicity.lower() == p]
list_habits_by_periodicity(hs, periodicity) ==
    LET p == lower(periodicity)
        matches(h) == lower(h.periodicity) = p
    IN  SelectSeq(hs, matches)

\* next((h for h in habits if h.habit_id == habit_id), None): the position
\* in hs of the first habit with that id from position i on, 0 for None.
RECURSIVE next_with_id(_, _, _)
next_with_id(hs, i, habit_id) ==
    IF i > Len(hs) THEN 0
    ELSE IF hs[i].habit_id = habit_id THEN i
         ELSE next_with_id(hs, i + 1, habit_id)

\* longest_streak_by_habit taking habit_id for the position of the habit in
\* the list, counted from 1.
longest_streak_by_habit_position(hs, habit_id) ==
    IF habit_id \in 1..Len(hs) THEN calculate_streak(hs[habit_id]) ELSE 0

longest_streak_by_habit(hs, habit_id) ==
    LET i == next_with_id(hs, 1, habit_id)
    IN  IF i # 0 THEN calculate_streak(hs[i]) ELSE 0

(***************************************************************************)
(* Inputs                                                                  *)
(***************************************************************************)
\* Longest completion list of the habit under analysis, when its periodicity
\* is "daily" or "weekly" and when it is another string.
MaxLen == 4
MaxLenOther == 2
\* Most habits in a collection handed to an aggregate query, and the longest
\* completion list of a daily habit in it.
MaxHabits == 3
MaxLenOverall == 2

\* Sun 2020-12-27 (2020-W52); Mon 2020-12-28 and Tue 2020-12-29 (2020-W53);
\* Mon 2021-01-04 (2021-W01); Sat 2022-01-01 (2021-W52); Mon 2022-01-03
\* (2022-W01).
Dates == {Day0 + 6, Day0 + 7, Day0 + 8, Day0 + 14, Day1 + 5, Day1 + 7}

\* Completion datetimes of a daily habit: three days in a row, the middle
\* one at two times of day, and a day after a gap.
DailyTimestamps ==
    {datetime_at(Day0 + 6, 8), datetime_at(Day0 + 7, 8), datetime_at(Day0 + 7, 20),
     datetime_at(Day0 + 8, 8), datetime_at(Day0 + 14, 8)}

\* Completion datetimes of a weekly habit: every date at 08:00.
WeeklyTimestamps == {datetime_at(d, 8) : d \in Dates}

Timestamps == DailyTimestamps \cup WeeklyTimestamps

\* The periodicity strings the application stores, and other strings.
Periodicities == {STR_daily, STR_weekly}
OtherPeriodicities == {STR_Weekly, STR_monthly}

\* The completion datetimes and the longest completion list of a habit, by
\* its periodicity string.
TimestampsOf(periodicity) ==
    IF periodicity = STR_daily THEN DailyTimestamps
    ELSE IF periodicity = STR_weekly THEN WeeklyTimestamps
    ELSE Timestamps

MaxLenOf(periodicity) ==
    IF periodicity \in Periodicities THEN MaxLen ELSE MaxLenOther

\* The values passed as today: a date, or None when the argument is omitted.
TodayArgs == Dates \cup {None}

\* The dates the system clock may show when date.today() is read.
ClockDates == {Day0 + 8, Day0 + 14}

BoundedSeq(S, n) == UNION {[1..k -> S] : k \in 0..n}

\* Habit(habit_id, name, periodicity, created_date, description,
\* completion_dates): the fields the analytics read.
Habit(id, periodicity, completion_dates) ==
    [habit_id |-> id, periodicity |-> periodicity,
     completion_dates |-> completion_dates]

\* A call record: the function, its arguments (the position of the habit
\* passed, today, a habit id or periodicity or password in arg, a datetime in
\* when), what it returned (value, ok for True or False, best for a list),
\* whether it raised, the calls it made on the storage backend, and in
\* stored the password that the latest successful set_password or
\* change_password was given (<<>> when there was none). A flow of the user
\* interface records the calls it made on the AuthService in auth_calls and
\* the functions it called, in order, in steps.
NoCall == [fn |-> "none", habit |-> None, today |-> None, value |-> None,
           best |-> <<>>, arg |-> None, when |-> None, ok |-> FALSE,
           raised |-> FALSE, storage_calls |-> <<>>, stored |-> <<>>,
           auth_calls |-> <<>>, steps |-> <<>>, pc |-> "none",
           session |-> FALSE, attempt |-> 0, pw1 |-> <<>>, pw2 |-> <<>>,
           cancelled |-> FALSE]

\* A database as SQLStore._initialize_db leaves it: the tables habits,
\* tracking and user without rows, and no id given out yet (the sequence
\* that AUTOINCREMENT keeps for the table habits).
EmptyDb == [habits |-> <<>>, tracking |-> EmptyBag, sequence |-> 0, user |-> <<>>]

\* No service object is in use: the analytics are called on Habit objects
\* alone.
NoServices ==
    /\ habit_by_id = <<>>
    /\ habit_id_counter = 0
    /\ storage = None
    /\ db = EmptyDb
    /\ current_user = <<>>

(***************************************************************************)
(* State machine                                                           *)
(*   habits:           the Habit objects, in collection order (the list    *)
(*                     HabitManager.habits when a manager is in use)       *)
(*   call:             the most recent call and what it returned           *)
(*   habit_by_id:      HabitManager._habit_by_id                           *)
(*   habit_id_counter: HabitManager.habit_id_counter                       *)
(*   storage:          HabitManager._storage, None or the SQLStore         *)
(*   db:               the tables of the SQLStore's database               *)
(*   current_user:     AuthManager._current_user, <<>> for None            *)
(***************************************************************************)
Init ==
    /\ \E p \in Periodicities \cup OtherPeriodicities :
          \E k \in 0..MaxLenOf(p) :
             \E c \in [1..k -> TimestampsOf(p)] :
                habits = <<Habit(1, p, c)>>
    /\ call = NoCall
    /\ NoServices

\* The habits of a collection: a periodicity and a completion list each.
OverallTimestamps == {datetime_at(Day0 + 6, 8), datetime_at(Day0 + 7, 8)}

\* Daily habits with any completion list, and a weekly habit completed in
\* both weeks.
OverallHabits ==
    ({STR_daily} \X BoundedSeq(OverallTimestamps, MaxLenOverall))
    \cup {<<STR_weekly, <<datetime_at(Day0 + 6, 8), datetime_at(Day0 + 7, 8)>>>>}

\* Collections of up to MaxHabits habits, numbered in order.
InitOverall ==
    /\ \E n \in 0..MaxHabits :
          \E f \in [1..n -> OverallHabits] :
             habits = [i \in 1..n |-> Habit(i, f[i][1], f[i][2])]
    /\ call = NoCall
    /\ NoServices

\* Habit.log_completion(when)
Habit_log_completion(i, when) ==
    /\ Len(habits[i].completion_dates) < MaxLenOf(habits[i].periodicity)
    /\ when \in TimestampsOf(habits[i].periodicity)
    /\ habits' = [habits EXCEPT ![i].completion_dates = Append(@, when)]
    /\ call' = [NoCall EXCEPT !.fn = "log_completion", !.habit = i]
    /\ UNCHANGED <<manager_vars, db, auth_vars>>

\* CalculateStreak with the dates put in order by habit.completion_dates
\* .sort(), in place, before the streak is computed.
CalculateStreak_sort_in_place(i) ==
    /\ call' = [NoCall EXCEPT !.fn = "calculate_streak", !.habit = i,
                              !.value = calculate_streak(habits[i])]
    /\ habits' = [habits EXCEPT ![i].completion_dates =
                     sorted_dates({@[k] : k \in 1..Len(@)})]
    /\ UNCHANGED <<manager_vars, db, auth_vars>>

\* calculate_streak(habits[i])
CalculateStreak(i) ==
    /\ call' = [NoCall EXCEPT !.fn = "calculate_streak", !.habit = i,
                              !.value = calculate_streak(habits[i])]
    /\ UNCHANGED <<habits, manager_vars, db, auth_vars>>

\* calculate_current_streak(habits[i], today=today), called while the system
\* clock shows one of ClockDates.
CalculateCurrentStreak(i, today) ==
    /\ \E now \in ClockDates :
          call' = [NoCall EXCEPT !.fn = "calculate_current_streak", !.habit = i,
                                 !.today = today,
                                 !.value = calculate_current_streak(habits[i], today, now)]
    /\ UNCHANGED <<habits, manager_vars, db, auth_vars>>

\* longest_streak_overall(habits)
LongestStreakOverall ==
    /\ LET r == longest_streak_overall(habits)
       IN  call' = [NoCall EXCEPT !.fn = "longest_streak_overall",
                                  !.value = r.streak, !.best = r.habits]
    /\ UNCHANGED <<habits, manager_vars, db, auth_vars>>

\* The habits of a collection handed to the list and lookup queries: each
\* with no completions, or with two in the same ISO week, on consecutive
\* days, the later one logged first.
QueryPeriodicities == {STR_daily, STR_weekly, STR_Weekly}

QueryCompletions ==
    {<<>>, <<datetime_at(Day0 + 8, 8), datetime_at(Day0 + 7, 8)>>}

\* The ids of a collection of n habits: ascending from 2, or descending
\* from n.
QueryIds(n) == {[i \in 1..n |-> i + 1], [i \in 1..n |-> n + 1 - i]}

\* The periodicity, habit_id and today arguments of the queries.
PeriodicityArgs == {STR_daily, STR_weekly, STR_Weekly, STR_WEEKLY, STR_monthly}
HabitIdArgs == 1..(MaxHabits + 1)
QueryTodayArgs == {Day0 + 8, None}

InitQueries ==
    /\ \E n \in 0..MaxHabits :
          \E ids \in QueryIds(n) :
             \E f \in [1..n -> QueryPeriodicities \X QueryCompletions] :
                habits = [i \in 1..n |-> Habit(ids[i], f[i][1], f[i][2])]
    /\ call = NoCall
    /\ NoServices

\* list_all_habits(habits)
ListAllHabits ==
    /\ call' = [NoCall EXCEPT !.fn = "list_all_habits",
                              !.best = list_all_habits(habits)]
    /\ UNCHANGED <<habits, manager_vars, db, auth_vars>>

\* list_habits_by_periodicity(habits, periodicity)
ListHabitsByPeriodicity(periodicity) ==
    /\ call' = [NoCall EXCEPT !.fn = "list_habits_by_periodicity",
                              !.arg = periodicity,
                              !.best = list_habits_by_periodicity(habits, periodicity)]
    /\ UNCHANGED <<habits, manager_vars, db, auth_vars>>

\* longest_streak_by_habit(habits, habit_id)
LongestStreakByHabit(habit_id) ==
    /\ call' = [NoCall EXCEPT !.fn = "longest_streak_by_habit",
                              !.arg = habit_id,
                              !.value = longest_streak_by_habit(habits, habit_id)]
    /\ UNCHANGED <<habits, manager_vars, db, auth_vars>>

Next ==
    \/ \E i \in 1..Len(habits), when \in Timestamps : Habit_log_completion(i, when)
    \/ \E i \in 1..Len(habits) : CalculateStreak(i)
    \/ \E i \in 1..Len(habits), today \in TodayArgs : CalculateCurrentStreak(i, today)

NextOverall ==
    LongestStreakOverall

Spec == Init /\ [][Next]_vars

SpecOverall == InitOverall /\ [][NextOverall]_vars

\* The six functions of the analytics module on one collection.
NextQueries ==
    \/ ListAllHabits
    \/ \E periodicity \in PeriodicityArgs : ListHabitsByPeriodicity(periodicity)
    \/ \E i \in 1..Len(habits) : CalculateStreak(i)
    \/ LongestStreakOverall
    \/ \E habit_id \in HabitIdArgs : LongestStreakByHabit(habit_id)
    \/ \E i \in 1..Len(habits), today \in QueryTodayArgs : CalculateCurrentStreak(i, today)

SpecQueries == InitQueries /\ [][NextQueries]_vars

(***************************************************************************)
(* datetime.isoformat() and datetime.fromisoformat()                       *)
(*                                                                         *)
(* The text YYYY-MM-DDTHH:00:00 is the tuple of its fields <<year, month,  *)
(* day, hour>>; every field has a fixed width, so the order of two texts   *)
(* is the order of their fields from left to right.                        *)
(***************************************************************************)
is_leap(y) == y % 4 = 0 /\ (y % 100 # 0 \/ y % 400 = 0)

DaysInMonth == <<31, 28, 31, 30, 31, 30, 31, 31, 30, 31, 30, 31>>

days_in_month(y, m) == IF m = 2 /\ is_leap(y) THEN 29 ELSE DaysInMonth[m]

\* Number of days of year y before the first day of month m.
RECURSIVE days_before_month(_, _)
days_before_month(y, m) ==
    IF m = 1 THEN 0 ELSE days_before_month(y, m - 1) + days_in_month(y, m - 1)

\* The year, month and day of ordinal day d.
ord2ymd(d) ==
    LET y == year_of(d)
        n == d - days_before_year(y)
        month == CHOOSE m \in 1..Len(DaysInMonth) :
                    /\ days_before_month(y, m) < n
                    /\ n <= days_before_month(y, m) + days_in_month(y, m)
    IN  <<y, month, n - days_before_month(y, month)>>

\* The ordinal of the day with that year, month and day.
ymd2ord(y, m, d) == days_before_year(y) + days_before_month(y, m) + d

\* The text of every datetime the model's inputs can lead to, computed once.
IsoFormats ==
    [dt \in {datetime_at(d, hour) : d \in (Day0 - 28)..(Day1 + 28), hour \in {8, 20}} |->
        LET ymd == ord2ymd(dt_date(dt))
        IN  <<ymd[1], ymd[2], ymd[3], dt % HoursPerDay>>]

\* isoformat applied to the calendar date alone: the time of day is lost.
isoformat_date_only(dt) ==
    <<IsoFormats[dt][1], IsoFormats[dt][2], IsoFormats[dt][3], 0>>

\* datetime.isoformat()
isoformat(dt) == IsoFormats[dt]

\* datetime.fromisoformat(text)
fromisoformat(text) == datetime_at(ymd2ord(text[1], text[2], text[3]), text[4])

\* text a sorts before text b, or is equal to it.
RECURSIVE text_le_from(_, _, _)
text_le_from(a, b, i) ==
    IF i > Len(a) THEN TRUE
    ELSE IF a[i] # b[i] THEN a[i] < b[i]
         ELSE text_le_from(a, b, i + 1)

text_le(a, b) == text_le_from(a, b, 1)

\* n copies of x in a row.
repeat(x, n) == [k \in 1..n |-> x]

\* SELECT completion_date ... ORDER BY completion_date ASC: the
\* completion_date of every row of the bag rows, in ascending order.
RECURSIVE order_by_asc(_)
order_by_asc(rows) ==
    IF rows = EmptyBag THEN <<>>
    ELSE LET first == CHOOSE r \in BagToSet(rows) :
                         \A o \in BagToSet(rows) :
                            text_le(r.completion_date, o.completion_date)
         IN  repeat(first.completion_date, CopiesIn(first, rows))
                 \o order_by_asc([r \in BagToSet(rows) \ {first} |-> rows[r]])

(***************************************************************************)
(* sql_store.py: the habit methods of SQLStore, on the tables              *)
(*   habits:   rows [id, name, periodicity, created_date], in rowid order  *)
(*   tracking: rows [habit_id, completion_date], a bag: the table without  *)
(*             the ids of its rows                                         *)
(*   sequence: the largest id the table habits ever gave out               *)
(***************************************************************************)
\* INSERT INTO tracking for each datetime of dts from position i on.
RECURSIVE insert_tracking(_, _, _, _)
insert_tracking(tracking, habit_id, dts, i) ==
    IF i > Len(dts) THEN tracking
    ELSE insert_tracking(
             tracking (+) SetToBag({[habit_id |-> habit_id,
                                     completion_date |-> isoformat(dts[i])]}),
             habit_id, dts, i + 1)

\* SQLStore.save_habit(habit_data): the database afterwards and the id
\* returned (cursor.lastrowid).
SQLStore_save_habit(d, habit_data) ==
    LET habit_id == d.sequence + 1
    IN  [db |-> [d EXCEPT
                   !.habits = Append(@, [id |-> habit_id,
                                         name |-> habit_data.name,
                                         periodicity |-> habit_data.periodicity,
                                         created_date |->
                                            isoformat(habit_data.created_date)]),
                   !.tracking = insert_tracking(@, habit_id,
                                                habit_data.completion_dates, 1),
                   !.sequence = habit_id],
         habit_id |-> habit_id]

\* SQLStore_log_completion that leaves the table alone when the row is
\* already there (INSERT OR IGNORE on the pair).
SQLStore_log_completion_or_ignore(d, habit_id, when) ==
    LET row == [habit_id |-> habit_id, completion_date |-> isoformat(when)]
    IN  IF BagIn(row, d.tracking) THEN d
        ELSE [d EXCEPT !.tracking = @ (+) SetToBag({row})]

\* SQLStore.log_completion(habit_id, when)
SQLStore_log_completion(d, habit_id, when) ==
    [d EXCEPT !.tracking = @ (+) SetToBag({[habit_id |-> habit_id,
                                            completion_date |-> isoformat(when)]})]

\* SQLStore.delete_habit(habit_id)
SQLStore_delete_habit(d, habit_id) ==
    LET other_id(row) == row.id # habit_id
    IN  [d EXCEPT !.tracking = [r \in {o \in BagToSet(@) : o.habit_id # habit_id} |-> @[r]],
                  !.habits = SelectSeq(@, other_id)]

\* SQLStore.load_habits(): one dict per row of habits, with the completions
\* of the habit in ascending order of their text.
SQLStore_load_habits(d) ==
    [r \in 1..Len(d.habits) |->
        LET rows == [o \in {t \in BagToSet(d.tracking) : t.habit_id = d.habits[r].id}
                        |-> d.tracking[o]]
            texts == order_by_asc(rows)
        IN  [id |-> d.habits[r].id,
             name |-> d.habits[r].name,
             periodicity |-> d.habits[r].periodicity,
             created_date |-> fromisoformat(d.habits[r].created_date),
             completion_dates |-> [k \in 1..Len(texts) |-> fromisoformat(texts[k])]]]

(***************************************************************************)
(* habit_manager.py: HabitManager                                          *)
(*                                                                         *)
(* A Habit object is referred to from the list habits and from the dict    *)
(* habit_by_id; the model holds its fields at both places and changes them *)
(* at both when the object changes.                                        *)
(***************************************************************************)
\* HabitManager._storage when it is the SQLStore.
SQLSTORE == 1

\* The largest of a non-empty set of integers.
max(S) == CHOOSE n \in S : \A m \in S : m <= n

\* _already_completed_for_period comparing whole datetimes in place of
\* their calendar dates in the daily branch.
already_completed_for_period_exact(habit, when) ==
    LET per == lower(habit.periodicity)
        dts == habit.completion_dates
    IN  IF per = STR_weekly
        THEN \E k \in 1..Len(dts) : iso_week_key(dt_date(dts[k])) = iso_week_key(dt_date(when))
        ELSE \E k \in 1..Len(dts) : dts[k] = when

\* _already_completed_for_period with the daily branch for every habit:
\* the periodicity is not looked at.
already_completed_for_period_by_date(habit, when) ==
    \E k \in 1..Len(habit.completion_dates) :
       dt_date(habit.completion_dates[k]) = dt_date(when)

\* HabitManager._already_completed_for_period(habit, when)
already_completed_for_period(habit, when) ==
    LET per == lower(habit.periodicity)
        dts == habit.completion_dates
    IN  IF per = STR_weekly
        THEN \E k \in 1..Len(dts) : iso_week_key(dt_date(dts[k])) = iso_week_key(dt_date(when))
        ELSE \E k \in 1..Len(dts) : dt_date(dts[k]) = dt_date(when)

\* Habit.log_completion(when): the fields of the habit afterwards.
completion_logged(habit, when) ==
    [habit EXCEPT !.completion_dates = Append(@, when)]

\* The habits _load_from_storage builds from the dicts raw_habits.
loaded_habits(raw_habits) ==
    [r \in 1..Len(raw_habits) |->
        Habit(raw_habits[r].id, raw_habits[r].periodicity,
              raw_habits[r].completion_dates)]

\* The dict _load_from_storage builds: under each id, the last habit of hs
\* with that id.
index_by_id(hs) ==
    [id \in {hs[i].habit_id : i \in 1..Len(hs)} |->
        hs[max({i \in 1..Len(hs) : hs[i].habit_id = id})]]

\* counter_after_load taking the number of habits loaded in place of the
\* largest id loaded.
counter_after_load_by_count(hs, counter) ==
    IF hs # <<>> THEN Len(hs) ELSE counter

\* habit_id_counter after _load_from_storage: the largest id loaded, and
\* the counter as it was when nothing is loaded.
counter_after_load(hs, counter) ==
    IF hs # <<>> THEN max({hs[i].habit_id : i \in 1..Len(hs)}) ELSE counter

\* Most ids given out to habits in one run.
MaxIds == 2

\* The periodicity strings passed to add_habit.
ManagerPeriodicities == {STR_daily, STR_Weekly}

\* The datetimes passed to log_completion as when. For a daily habit: Mon
\* 2020-12-28 at 08:00 and at 20:00, and Tue 2020-12-29. For a weekly habit:
\* that Monday and Tuesday (one ISO week) and Mon 2021-01-04. For an id that
\* no habit has: all of them.
WhenArgs ==
    {datetime_at(Day0 + 7, 8), datetime_at(Day0 + 7, 20),
     datetime_at(Day0 + 8, 8), datetime_at(Day0 + 14, 8)}

WhenArgsOf(habit_id) ==
    IF habit_id \notin DOMAIN habit_by_id THEN WhenArgs
    ELSE IF habit_by_id[habit_id].periodicity = STR_daily
         THEN WhenArgs \ {datetime_at(Day0 + 14, 8)}
         ELSE WhenArgs \ {datetime_at(Day0 + 7, 20)}

\* What datetime.now() may return when log_completion is called without
\* when.
ClockDatetimes == {datetime_at(Day0 + 7, 8), datetime_at(Day0 + 8, 8)}

\* The name every add_habit is given, and what datetime.now() returns in
\* add_habit: Mon 2020-12-28 at 08:00.
ManagerName == <<"r","u","n">>

ManagerCreated == datetime_at(Day0 + 7, 8)

\* The ids passed to remove_habit and log_completion.
ManagerIdArgs == 1..(MaxIds + 1)

\* HabitManager(): no storage, no habits, counter 0.
InitManager ==
    /\ storage = None
    /\ db = EmptyDb
    /\ habits = <<>>
    /\ habit_by_id = <<>>
    /\ habit_id_counter = 0
    /\ call = NoCall
    /\ current_user = <<>>

\* HabitManager(SQLStore(db_path)) on a new database: no habits, counter 0.
InitStoredManager ==
    /\ storage = SQLSTORE
    /\ db = EmptyDb
    /\ habits = <<>>
    /\ habit_by_id = <<>>
    /\ habit_id_counter = 0
    /\ call = NoCall
    /\ current_user = <<>>

\* HabitManager(storage): a new manager on the storage of the old one.
HabitManager_init ==
    /\ storage # None
    /\ LET loaded == loaded_habits(SQLStore_load_habits(db))
       IN  /\ habits' = loaded
           /\ habit_by_id' = index_by_id(loaded)
           /\ habit_id_counter' = counter_after_load(loaded, 0)
    /\ call' = [NoCall EXCEPT !.fn = "HabitManager",
                              !.storage_calls = <<[op |-> "load_habits",
                                                   habit_id |-> None, when |-> None]>>]
    /\ UNCHANGED <<storage, db, auth_vars>>

\* HabitManager_add_habit taking, without storage, the number of listed
\* habits plus one as the new id.
HabitManager_add_habit_id_by_length(periodicity) ==
    /\ IF storage # None THEN db.sequence < MaxIds ELSE habit_id_counter < MaxIds
    /\ LET saved == SQLStore_save_habit(db, [name |-> ManagerName,
                                             periodicity |-> periodicity,
                                             created_date |-> ManagerCreated,
                                             completion_dates |-> <<>>])
           habit_id == IF storage # None THEN saved.habit_id ELSE Len(habits) + 1
           new_habit == Habit(habit_id, periodicity, <<>>)
       IN  /\ db' = IF storage # None THEN saved.db ELSE db
           /\ habit_id_counter' = IF storage # None
                                  THEN Max(habit_id_counter, habit_id)
                                  ELSE habit_id
           /\ habits' = Append(habits, new_habit)
           /\ habit_by_id' = [id \in DOMAIN habit_by_id \cup {habit_id} |->
                                IF id = habit_id THEN new_habit ELSE habit_by_id[id]]
           /\ call' = [NoCall EXCEPT
                         !.fn = "add_habit", !.arg = habit_id, !.value = habit_id,
                         !.storage_calls =
                            IF storage # None
                            THEN <<[op |-> "save_habit", habit_id |-> habit_id,
                                    when |-> None]>>
                            ELSE <<>>]
    /\ UNCHANGED <<storage, auth_vars>>

\* HabitManager.add_habit(name, periodicity)
HabitManager_add_habit(periodicity) ==
    /\ IF storage # None THEN db.sequence < MaxIds ELSE habit_id_counter < MaxIds
    /\ LET saved == SQLStore_save_habit(db, [name |-> ManagerName,
                                             periodicity |-> periodicity,
                                             created_date |-> ManagerCreated,
                                             completion_dates |-> <<>>])
           habit_id == IF storage # None THEN saved.habit_id ELSE habit_id_counter + 1
           new_habit == Habit(habit_id, periodicity, <<>>)
       IN  /\ db' = IF storage # None THEN saved.db ELSE db
           /\ habit_id_counter' = IF storage # None
                                  THEN Max(habit_id_counter, habit_id)
                                  ELSE habit_id_counter + 1
           /\ habits' = Append(habits, new_habit)
           /\ habit_by_id' = [id \in DOMAIN habit_by_id \cup {habit_id} |->
                                IF id = habit_id THEN new_habit ELSE habit_by_id[id]]
           /\ call' = [NoCall EXCEPT
                         !.fn = "add_habit", !.arg = habit_id, !.value = habit_id,
                         !.storage_calls =
                            IF storage # None
                            THEN <<[op |-> "save_habit", habit_id |-> habit_id,
                                    when |-> None]>>
                            ELSE <<>>]
    /\ UNCHANGED <<storage, auth_vars>>

\* habits.remove(habit): the list without its first element equal to the
\* habit.
RECURSIVE list_remove(_, _)
list_remove(hs, habit) ==
    IF hs = <<>> THEN <<>>
    ELSE IF Head(hs) = habit THEN Tail(hs)
         ELSE <<Head(hs)>> \o list_remove(Tail(hs), habit)

\* HabitManager_remove_habit that takes the habit out of the list and
\* leaves it in the dict _habit_by_id.
HabitManager_remove_habit_list_only(habit_id) ==
    IF habit_id \notin DOMAIN habit_by_id
    THEN /\ call' = [NoCall EXCEPT !.fn = "remove_habit", !.arg = habit_id,
                                   !.ok = FALSE]
         /\ UNCHANGED <<habits, manager_vars, db, auth_vars>>
    ELSE /\ habits' = list_remove(habits, habit_by_id[habit_id])
         /\ db' = IF storage # None THEN SQLStore_delete_habit(db, habit_id) ELSE db
         /\ call' = [NoCall EXCEPT
                       !.fn = "remove_habit", !.arg = habit_id, !.ok = TRUE,
                       !.storage_calls =
                          IF storage # None
                          THEN <<[op |-> "delete_habit", habit_id |-> habit_id,
                                  when |-> None]>>
                          ELSE <<>>]
         /\ UNCHANGED <<habit_by_id, habit_id_counter, storage, auth_vars>>

\* HabitManager.remove_habit(habit_id)
HabitManager_remove_habit(habit_id) ==
    IF habit_id \notin DOMAIN habit_by_id
    THEN /\ call' = [NoCall EXCEPT !.fn = "remove_habit", !.arg = habit_id,
                                   !.ok = FALSE]
         /\ UNCHANGED <<habits, manager_vars, db, auth_vars>>
    ELSE /\ habit_by_id' = [id \in DOMAIN habit_by_id \ {habit_id} |-> habit_by_id[id]]
         /\ habits' = list_remove(habits, habit_by_id[habit_id])
         /\ db' = IF storage # None THEN SQLStore_delete_habit(db, habit_id) ELSE db
         /\ call' = [NoCall EXCEPT
                       !.fn = "remove_habit", !.arg = habit_id, !.ok = TRUE,
                       !.storage_calls =
                          IF storage # None
                          THEN <<[op |-> "delete_habit", habit_id |-> habit_id,
                                  when |-> None]>>
                          ELSE <<>>]
         /\ UNCHANGED <<habit_id_counter, storage, auth_vars>>

\* HabitManager.log_completion(habit_id, when), called while datetime.now()
\* is one of ClockDatetimes; when is None when the argument is omitted.
HabitManager_log_completion(habit_id, when) ==
    \E at \in (IF when = None THEN ClockDatetimes ELSE {when}) :
           IF \/ habit_id \notin DOMAIN habit_by_id
              \/ already_completed_for_period(habit_by_id[habit_id], at)
           THEN /\ call' = [NoCall EXCEPT !.fn = "log_completion", !.arg = habit_id,
                                          !.when = at, !.ok = FALSE]
                /\ UNCHANGED <<habits, manager_vars, db, auth_vars>>
           ELSE /\ habit_by_id' = [habit_by_id EXCEPT
                                     ![habit_id] = completion_logged(@, at)]
                /\ habits' = [i \in 1..Len(habits) |->
                                IF habits[i] = habit_by_id[habit_id]
                                THEN completion_logged(habits[i], at)
                                ELSE habits[i]]
                /\ db' = IF storage # None
                         THEN SQLStore_log_completion(db, habit_id, at)
                         ELSE db
                /\ call' = [NoCall EXCEPT
                              !.fn = "log_completion", !.arg = habit_id,
                              !.when = at, !.ok = TRUE,
                              !.storage_calls =
                                 IF storage # None
                                 THEN <<[op |-> "log_completion",
                                         habit_id |-> habit_id, when |-> at]>>
                                 ELSE <<>>]
                /\ UNCHANGED <<habit_id_counter, storage, auth_vars>>

\* The calls on a HabitManager without storage.
NextManager ==
    \/ \E periodicity \in ManagerPeriodicities : HabitManager_add_habit(periodicity)
    \/ \E habit_id \in ManagerIdArgs : HabitManager_remove_habit(habit_id)
    \/ \E habit_id \in ManagerIdArgs :
          \E when \in WhenArgsOf(habit_id) \cup {None} :
             HabitManager_log_completion(habit_id, when)

SpecManager == InitManager /\ [][NextManager]_vars

\* The calls on a HabitManager with an SQLStore, and the start of a new
\* manager on the same database.
NextStoredManager ==
    \/ \E periodicity \in ManagerPeriodicities : HabitManager_add_habit(periodicity)
    \/ \E habit_id \in ManagerIdArgs : HabitManager_remove_habit(habit_id)
    \/ \E habit_id \in ManagerIdArgs :
          \E when \in WhenArgsOf(habit_id) \cup {None} :
             HabitManager_log_completion(habit_id, when)
    \/ HabitManager_init

SpecStoredManager == InitStoredManager /\ [][NextStoredManager]_vars

(***************************************************************************)
(* sql_store.py: SQLStore called directly                                  *)
(***************************************************************************)
\* The largest id save_habit gives out, and the largest number of rows of
\* the table tracking.
MaxStoreIds == 2

MaxRows == 3

\* The datetimes stored: Mon 2020-12-28 at 08:00 and at 20:00, and Mon
\* 2021-01-04 at 08:00.
StoreDatetimes ==
    <<datetime_at(Day0 + 7, 8), datetime_at(Day0 + 7, 20), datetime_at(Day0 + 14, 8)>>

\* The dicts passed to save_habit: without completions, with two completions
\* in descending order, with the same completion twice.
HabitDatas ==
    { [name |-> <<"a">>, periodicity |-> STR_daily,
       created_date |-> StoreDatetimes[1], completion_dates |-> <<>>],
      [name |-> <<"b">>, periodicity |-> STR_Weekly,
       created_date |-> StoreDatetimes[2],
       completion_dates |-> <<StoreDatetimes[3], StoreDatetimes[1]>>],
      [name |-> <<"a">>, periodicity |-> STR_daily,
       created_date |-> StoreDatetimes[1],
       completion_dates |-> <<StoreDatetimes[2], StoreDatetimes[2]>>] }

\* The ids passed to log_completion and delete_habit: ids of stored habits,
\* of deleted ones and of habits not stored yet.
StoreIdArgs == 1..MaxStoreIds

\* The datetimes passed to log_completion.
StoreWhenArgs == {StoreDatetimes[1], StoreDatetimes[2]}

\* SQLStore(db_path) on a new database file.
InitStore ==
    /\ db = EmptyDb
    /\ call = NoCall
    /\ storage = SQLSTORE
    /\ habits = <<>>
    /\ habit_by_id = <<>>
    /\ habit_id_counter = 0
    /\ current_user = <<>>

\* SQLStore.save_habit(habit_data)
SaveHabit(habit_data) ==
    /\ db.sequence < MaxStoreIds
    /\ BagCardinality(db.tracking) + Len(habit_data.completion_dates) <= MaxRows
    /\ LET saved == SQLStore_save_habit(db, habit_data)
       IN  /\ db' = saved.db
           /\ call' = [NoCall EXCEPT !.fn = "save_habit", !.arg = habit_data,
                                     !.value = saved.habit_id]
    /\ UNCHANGED <<habits, manager_vars, auth_vars>>

\* SQLStore.log_completion(habit_id, when)
LogCompletion(habit_id, when) ==
    /\ BagCardinality(db.tracking) < MaxRows
    /\ db' = SQLStore_log_completion(db, habit_id, when)
    /\ call' = [NoCall EXCEPT !.fn = "log_completion", !.arg = habit_id,
                              !.when = when]
    /\ UNCHANGED <<habits, manager_vars, auth_vars>>

\* SQLStore.load_habits()
LoadHabits ==
    /\ call' = [NoCall EXCEPT !.fn = "load_habits", !.best = SQLStore_load_habits(db)]
    /\ UNCHANGED <<habits, manager_vars, db, auth_vars>>

\* SQLStore.delete_habit(habit_id)
DeleteHabit(habit_id) ==
    /\ db' = SQLStore_delete_habit(db, habit_id)
    /\ call' = [NoCall EXCEPT !.fn = "delete_habit", !.arg = habit_id, !.ok = TRUE]
    /\ UNCHANGED <<habits, manager_vars, auth_vars>>

NextStore ==
    \/ \E habit_data \in HabitDatas : SaveHabit(habit_data)
    \/ \E habit_id \in StoreIdArgs, when \in StoreWhenArgs :
          LogCompletion(habit_id, when)
    \/ LoadHabits
    \/ \E habit_id \in StoreIdArgs : DeleteHabit(habit_id)

SpecStore == InitStore /\ [][NextStore]_vars

(***************************************************************************)
(* auth_manager.py: AuthManager                                            *)
(*                                                                         *)
(* bytes are sequences of integers 0..255. PBKDF2-HMAC is taken to be free *)
(* of collisions: the derived key of a password and a salt is the bytes of *)
(* the salt followed by the bytes of the password.                         *)
(***************************************************************************)
Digits == <<"0","1","2","3","4","5","6","7","8","9">>

\* The alphabet of base64, value 0 first.
B64Alphabet == UpperChars \o LowerChars \o Digits \o <<"+", "/">>

\* The value of each character of the alphabet.
B64Values ==
    [c \in {B64Alphabet[i] : i \in 1..Len(B64Alphabet)} |->
        (CHOOSE i \in 1..Len(B64Alphabet) : B64Alphabet[i] = c) - 1]

\* The code point of each letter and digit, of the space and of "!".
CodePoints ==
    [c \in {UpperChars[i] : i \in 1..Len(UpperChars)}
           \cup {LowerChars[i] : i \in 1..Len(LowerChars)}
           \cup {Digits[i] : i \in 1..Len(Digits)} \cup {" ", "!"} |->
        IF c \in DOMAIN UpperToLower
        THEN 64 + (CHOOSE i \in 1..Len(UpperChars) : UpperChars[i] = c)
        ELSE IF \E i \in 1..Len(LowerChars) : LowerChars[i] = c
        THEN 96 + (CHOOSE i \in 1..Len(LowerChars) : LowerChars[i] = c)
        ELSE IF \E i \in 1..Len(Digits) : Digits[i] = c
        THEN 47 + (CHOOSE i \in 1..Len(Digits) : Digits[i] = c)
        ELSE IF c = " " THEN 32 ELSE 33]

\* password.encode("utf-8"), for a password of these characters.
encode_utf8(s) == [i \in 1..Len(s) |-> CodePoints[s[i]]]

\* base64.b64encode(raw): four characters for every three bytes, the last
\* group filled up with "=".
RECURSIVE b64encode(_)
b64encode(raw) ==
    IF raw = <<>> THEN <<>>
    ELSE LET n == Len(raw)
             b2 == IF n >= 2 THEN raw[2] ELSE 0
             b3 == IF n >= 3 THEN raw[3] ELSE 0
             v == raw[1] * 65536 + b2 * 256 + b3
         IN  << B64Alphabet[(v \div 262144) + 1],
                B64Alphabet[((v \div 4096) % 64) + 1],
                IF n >= 2 THEN B64Alphabet[((v \div 64) % 64) + 1] ELSE "=",
                IF n >= 3 THEN B64Alphabet[(v % 64) + 1] ELSE "=" >>
             \o b64encode(SubSeq(raw, 4, n))

\* base64.b64decode(encoded): three bytes for every four characters, fewer
\* for a group that ends in "=".
RECURSIVE b64decode(_)
b64decode(encoded) ==
    IF encoded = <<>> THEN <<>>
    ELSE LET value(c) == IF c = "=" THEN 0 ELSE B64Values[c]
             v == value(encoded[1]) * 262144 + value(encoded[2]) * 4096
                    + value(encoded[3]) * 64 + value(encoded[4])
             bytes == <<v \div 65536, (v \div 256) % 256, v % 256>>
             count == IF encoded[3] = "=" THEN 1
                      ELSE IF encoded[4] = "=" THEN 2 ELSE 3
         IN  SubSeq(bytes, 1, count) \o b64decode(SubSeq(encoded, 5, Len(encoded)))

\* AuthManager._hash_password(password, salt)
hash_password(password, salt) == salt \o encode_utf8(password)

\* AuthManager._verify_password(password, user)
verify_password(password, user) ==
    LET salt == b64decode(user.salt)
        stored_hash == b64decode(user.password_hash)
        candidate_hash == hash_password(password, salt)
    IN  candidate_hash = stored_hash

\* User(username, password_hash, salt)
User(username, password_hash, salt) ==
    [username |-> username, password_hash |-> password_hash, salt |-> salt]

\* AuthManager._USERNAME
USERNAME == <<"d","e","f","a","u","l","t">>

\* SQLStore.save_user(user): the one row of the table user is replaced.
SQLStore_save_user(d, user) == [d EXCEPT !.user = <<user>>]

\* SQLStore.load_user(): <<>> for None, <<user>> for the stored user.
SQLStore_load_user(d) == d.user

\* The passwords entered: "", "a", "b" and "ab".
Passwords == {<<>>, <<"a">>, <<"b">>, <<"a","b">>}

\* The salts os.urandom may return.
Salts == {<<7>>, <<250, 96>>}

\* AuthManager(SQLStore(db_path)) on a new database.
InitAuth ==
    /\ db = EmptyDb
    /\ current_user = <<>>
    /\ call = NoCall
    /\ habits = <<>>
    /\ habit_by_id = <<>>
    /\ habit_id_counter = 0
    /\ storage = SQLSTORE

\* AuthManager_set_password without the first-run test: the stored user is
\* replaced.
AuthManager_set_password_overwrite(password) ==
    \E salt_bytes \in Salts :
        LET hash_bytes == hash_password(password, salt_bytes)
            user == User(USERNAME, b64encode(hash_bytes), b64encode(salt_bytes))
        IN  /\ db' = SQLStore_save_user(db, user)
            /\ current_user' = <<user>>
            /\ call' = [NoCall EXCEPT !.fn = "set_password", !.arg = password,
                                      !.ok = TRUE, !.stored = <<password>>]
            /\ UNCHANGED <<habits, manager_vars>>

\* AuthManager.set_password(password)
AuthManager_set_password(password) ==
    IF SQLStore_load_user(db) # <<>>
    THEN /\ call' = [NoCall EXCEPT !.fn = "set_password", !.arg = password,
                                   !.raised = TRUE, !.stored = call.stored]
         /\ UNCHANGED <<habits, manager_vars, db, auth_vars>>
    ELSE \E salt_bytes \in Salts :
            LET hash_bytes == hash_password(password, salt_bytes)
                user == User(USERNAME, b64encode(hash_bytes), b64encode(salt_bytes))
            IN  /\ db' = SQLStore_save_user(db, user)
                /\ current_user' = <<user>>
                /\ call' = [NoCall EXCEPT !.fn = "set_password", !.arg = password,
                                          !.ok = TRUE, !.stored = <<password>>]
                /\ UNCHANGED <<habits, manager_vars>>

\* AuthManager_login with the loaded user made the current user before the
\* password is verified.
AuthManager_login_sets_user_first(password) ==
    LET user == SQLStore_load_user(db)
    IN  /\ current_user' = user
        /\ call' = [NoCall EXCEPT !.fn = "login", !.arg = password,
                                  !.ok = (user # <<>> /\ verify_password(password, user[1])),
                                  !.stored = call.stored]
        /\ UNCHANGED <<habits, manager_vars, db>>

\* AuthManager.login(password)
AuthManager_login(password) ==
    LET user == SQLStore_load_user(db)
    IN  IF user # <<>> /\ verify_password(password, user[1])
        THEN /\ current_user' = user
             /\ call' = [NoCall EXCEPT !.fn = "login", !.arg = password,
                                       !.ok = TRUE, !.stored = call.stored]
             /\ UNCHANGED <<habits, manager_vars, db>>
        ELSE /\ call' = [NoCall EXCEPT !.fn = "login", !.arg = password,
                                       !.ok = FALSE, !.stored = call.stored]
             /\ UNCHANGED <<habits, manager_vars, db, auth_vars>>

\* AuthManager_change_password with the salt of the old user stored beside
\* the hash made with the new salt.
AuthManager_change_password_old_salt(old_password, new_password) ==
    LET user == SQLStore_load_user(db)
    IN  IF user = <<>>
        THEN /\ call' = [NoCall EXCEPT !.fn = "change_password", !.arg = old_password,
                                       !.raised = TRUE, !.stored = call.stored]
             /\ UNCHANGED <<habits, manager_vars, db, auth_vars>>
        ELSE IF ~verify_password(old_password, user[1])
        THEN /\ call' = [NoCall EXCEPT !.fn = "change_password", !.arg = old_password,
                                       !.ok = FALSE, !.stored = call.stored]
             /\ UNCHANGED <<habits, manager_vars, db, auth_vars>>
        ELSE \E new_salt \in Salts :
                LET new_hash == hash_password(new_password, new_salt)
                    updated_user == User(user[1].username, b64encode(new_hash),
                                         user[1].salt)
                IN  /\ db' = SQLStore_save_user(db, updated_user)
                    /\ current_user' = <<updated_user>>
                    /\ call' = [NoCall EXCEPT !.fn = "change_password",
                                              !.arg = old_password, !.ok = TRUE,
                                              !.stored = <<new_password>>]
                    /\ UNCHANGED <<habits, manager_vars>>

\* AuthManager.change_password(old_password, new_password)
AuthManager_change_password(old_password, new_password) ==
    LET user == SQLStore_load_user(db)
    IN  IF user = <<>>
        THEN /\ call' = [NoCall EXCEPT !.fn = "change_password", !.arg = old_password,
                                       !.raised = TRUE, !.stored = call.stored]
             /\ UNCHANGED <<habits, manager_vars, db, auth_vars>>
        ELSE IF ~verify_password(old_password, user[1])
        THEN /\ call' = [NoCall EXCEPT !.fn = "change_password", !.arg = old_password,
                                       !.ok = FALSE, !.stored = call.stored]
             /\ UNCHANGED <<habits, manager_vars, db, auth_vars>>
        ELSE \E new_salt \in Salts :
                LET new_hash == hash_password(new_password, new_salt)
                    updated_user == User(user[1].username, b64encode(new_hash),
                                         b64encode(new_salt))
                IN  /\ db' = SQLStore_save_user(db, updated_user)
                    /\ current_user' = <<updated_user>>
                    /\ call' = [NoCall EXCEPT !.fn = "change_password",
                                              !.arg = old_password, !.ok = TRUE,
                                              !.stored = <<new_password>>]
                    /\ UNCHANGED <<habits, manager_vars>>

\* AuthManager(storage) constructed again on the same database, as every
\* session does: nobody is logged in.
AuthManager_init ==
    /\ current_user' = <<>>
    /\ call' = [NoCall EXCEPT !.fn = "AuthManager", !.stored = call.stored]
    /\ UNCHANGED <<habits, manager_vars, db>>

\* AuthManager.is_first_run()
AuthManager_is_first_run ==
    /\ call' = [NoCall EXCEPT !.fn = "is_first_run",
                              !.ok = (SQLStore_load_user(db) = <<>>),
                              !.stored = call.stored]
    /\ UNCHANGED <<habits, manager_vars, db, auth_vars>>

\* AuthManager.get_current_user(): <<>> for None, <<user>> for a user.
AuthManager_get_current_user ==
    /\ call' = [NoCall EXCEPT !.fn = "get_current_user", !.best = current_user,
                              !.stored = call.stored]
    /\ UNCHANGED <<habits, manager_vars, db, auth_vars>>

NextAuth ==
    \/ \E password \in Passwords : AuthManager_set_password(password)
    \/ \E password \in Passwords : AuthManager_login(password)
    \/ \E old_password \in Passwords, new_password \in Passwords :
          AuthManager_change_password(old_password, new_password)
    \/ AuthManager_init
    \/ AuthManager_is_first_run
    \/ AuthManager_get_current_user

SpecAuth == InitAuth /\ [][NextAuth]_vars

(***************************************************************************)
(* auth_flow.py and app_entry.py: the flows of the user interface          *)
(*                                                                         *)
(* questionary.password(...).ask() returns what the user typed, or None    *)
(* when the prompt was cancelled: an answer is <<password>> or <<>>. A     *)
(* flow takes one step for each prompt answered: from the answer to the    *)
(* next prompt, or to its return.                                          *)
(***************************************************************************)
islower(c) == \E i \in 1..Len(LowerChars) : LowerChars[i] = c

isupper(c) == \E i \in 1..Len(UpperChars) : UpperChars[i] = c

isdigit(c) == \E i \in 1..Len(Digits) : Digits[i] = c

isalnum(c) == islower(c) \/ isupper(c) \/ isdigit(c)

isspace(c) == c = " "

\* s.strip()
RECURSIVE strip(_)
strip(s) ==
    IF s = <<>> THEN s
    ELSE IF isspace(s[1]) THEN strip(Tail(s))
    ELSE IF isspace(s[Len(s)]) THEN strip(SubSeq(s, 1, Len(s) - 1))
    ELSE s

\* The common passwords check_password_strength rejects.
common_passwords ==
    { <<"p","a","s","s","w","o","r","d">>,
      <<"1","2","3","4","5","6","7","8">>,
      <<"1","2","3","4","5","6","7","8","9">>,
      <<"q","w","e","r","t","y">>,
      <<"i","l","o","v","e","y","o","u">>,
      <<"a","d","m","i","n">>,
      <<"w","e","l","c","o","m","e">> }

\* AuthManager.check_password_strength(password): errors and suggestions
\* hold one word for each message.
check_password_strength(password) ==
    LET chars == {password[i] : i \in 1..Len(password)}
        has_lower == \E c \in chars : islower(c)
        has_upper == \E c \in chars : isupper(c)
        has_digit == \E c \in chars : isdigit(c)
        has_symbol == \E c \in chars : ~isalnum(c)
        categories == Cardinality({k \in 1..4 :
                          <<has_lower, has_upper, has_digit, has_symbol>>[k]})
        errors ==
            (IF Len(password) < 8 THEN <<"length">> ELSE <<>>)
            \o (IF strip(password) = <<>> THEN <<"whitespace">> ELSE <<>>)
            \o (IF lower(password) \in common_passwords THEN <<"common">> ELSE <<>>)
            \o (IF categories < 3 /\ ~has_lower THEN <<"lowercase">> ELSE <<>>)
            \o (IF categories < 3 /\ ~has_upper THEN <<"uppercase">> ELSE <<>>)
            \o (IF categories < 3 /\ ~has_digit THEN <<"number">> ELSE <<>>)
            \o (IF categories < 3 /\ ~has_symbol THEN <<"special">> ELSE <<>>)
        suggestions ==
            IF 8 <= Len(password) /\ Len(password) < 12 THEN <<"longer">> ELSE <<>>
    IN  [ok |-> errors = <<>>, errors |-> errors, suggestions |-> suggestions]

\* AuthManager.login(password) on database d with current user cu: what it
\* returns and the current user afterwards.
login(d, cu, password) ==
    LET user == SQLStore_load_user(d)
        ok == user # <<>> /\ verify_password(password, user[1])
    IN  [ok |-> ok, current_user |-> IF ok THEN user ELSE cu]

\* AuthManager.set_password(password) with salt_bytes from os.urandom.
set_password(d, cu, password, salt_bytes) ==
    IF SQLStore_load_user(d) # <<>>
    THEN [raised |-> TRUE, db |-> d, current_user |-> cu]
    ELSE LET hash_bytes == hash_password(password, salt_bytes)
             user == User(USERNAME, b64encode(hash_bytes), b64encode(salt_bytes))
         IN  [raised |-> FALSE, db |-> SQLStore_save_user(d, user),
              current_user |-> <<user>>]

\* PREDEFINED_HABITS of fixtures/predefined_habits.py, a file that is not
\* part of the source at hand: the periodicities of the list the tests put in
\* its place.
PREDEFINED_HABITS == <<STR_daily, STR_weekly>>

\* HabitManager.add_habit for each habit of defs from position i on, on a
\* manager with storage: m holds habits, habit_by_id, habit_id_counter, db.
RECURSIVE seed_from(_, _, _)
seed_from(m, defs, i) ==
    IF i > Len(defs) THEN m
    ELSE LET saved == SQLStore_save_habit(m.db, [name |-> ManagerName,
                                                 periodicity |-> defs[i],
                                                 created_date |-> ManagerCreated,
                                                 completion_dates |-> <<>>])
             new_habit == Habit(saved.habit_id, defs[i], <<>>)
         IN  seed_from([habits |-> Append(m.habits, new_habit),
                        habit_by_id |->
                           [id \in DOMAIN m.habit_by_id \cup {saved.habit_id} |->
                               IF id = saved.habit_id THEN new_habit
                               ELSE m.habit_by_id[id]],
                        habit_id_counter |-> Max(m.habit_id_counter, saved.habit_id),
                        db |-> saved.db],
                       defs, i + 1)

\* HabitManager(storage) followed by seed_predefined_habits().
manager_seeded(d) ==
    LET loaded == loaded_habits(SQLStore_load_habits(d))
        m == [habits |-> loaded, habit_by_id |-> index_by_id(loaded),
              habit_id_counter |-> counter_after_load(loaded, 0), db |-> d]
    IN  IF m.habits # <<>> THEN m ELSE seed_from(m, PREDEFINED_HABITS, 1)

\* attempts of login_flow when the caller passes none.
DefaultAttempts == 3

\* The largest attempts passed to login_flow.
MaxAttempts == 2

\* The passwords typed: "Abcdef12", "abcdefgh" (one category of characters)
\* and "  " (blank).
TypedStrong == <<"A","b","c","d","e","f","1","2">>

TypedWeak == <<"a","b","c","d","e","f","g","h">>

TypedBlank == <<" "," ">>

\* The answers to a prompt: cancelled, or one of the passwords.
Answers == {<<>>, <<TypedStrong>>, <<TypedWeak>>, <<TypedBlank>>}

\* The application started on a new database: no user, no manager.
InitSession ==
    /\ db = EmptyDb
    /\ current_user = <<>>
    /\ call = NoCall
    /\ habits = <<>>
    /\ habit_by_id = <<>>
    /\ habit_id_counter = 0
    /\ storage = SQLSTORE

\* No flow waits at a prompt: the application is at the mode selection.
FlowIdle == call.pc \notin {"password", "choose", "confirm"}

\* The flow of record c has returned (in a session that goes on, main_menu
\* is entered).
Returned(c) == c.pc \in {"returned", "main_menu"}

\* The rest of _run_real_session with every authentication result taken as
\* success.
RunRealSession_after_unchecked(c, ok, d) ==
    LET m == manager_seeded(d)
    IN  /\ habits' = m.habits
        /\ habit_by_id' = m.habit_by_id
        /\ habit_id_counter' = m.habit_id_counter
        /\ db' = m.db
        /\ call' = [c EXCEPT
                      !.pc = "main_menu", !.ok = ok,
                      !.steps = @ \o <<[op |-> c.fn, ok |-> ok],
                                       [op |-> "HabitManager", ok |-> TRUE],
                                       [op |-> "seed_predefined_habits", ok |-> TRUE],
                                       [op |-> "main_menu", ok |-> TRUE]>>]
        /\ UNCHANGED storage

\* _run_real_session() after its authentication flow, of call record c,
\* returned ok with the database as d: return, or create the manager, seed
\* it and enter main_menu.
RunRealSession_after(c, ok, d) ==
    IF ~ok
    THEN /\ db' = d
         /\ call' = [c EXCEPT !.pc = "returned", !.ok = FALSE,
                              !.steps = Append(@, [op |-> c.fn, ok |-> FALSE])]
         /\ UNCHANGED <<habits, manager_vars>>
    ELSE LET m == manager_seeded(d)
         IN  /\ habits' = m.habits
             /\ habit_by_id' = m.habit_by_id
             /\ habit_id_counter' = m.habit_id_counter
             /\ db' = m.db
             /\ call' = [c EXCEPT
                           !.pc = "main_menu", !.ok = TRUE,
                           !.steps = @ \o <<[op |-> c.fn, ok |-> TRUE],
                                            [op |-> "HabitManager", ok |-> TRUE],
                                            [op |-> "seed_predefined_habits", ok |-> TRUE],
                                            [op |-> "main_menu", ok |-> TRUE]>>]
             /\ UNCHANGED storage

\* The flow of call record c returns ok, with the database as d and the
\* current user as cu: to its caller _run_real_session, or to a caller that
\* does nothing more.
FlowReturns(c, ok, d, cu) ==
    /\ current_user' = cu
    /\ IF c.session
       THEN RunRealSession_after(c, ok, d)
       ELSE /\ db' = d
            /\ call' = [c EXCEPT !.pc = "returned", !.ok = ok]
            /\ UNCHANGED <<habits, manager_vars>>

\* login_flow(auth, attempts) up to its first prompt; session tells whether
\* _run_real_session called it, steps what the session did before.
login_flow_begin(attempts, session, steps) ==
    [NoCall EXCEPT !.fn = "login_flow", !.value = attempts, !.session = session,
                   !.steps = steps, !.attempt = 1,
                   !.pc = IF attempts >= 1 THEN "password" ELSE "returned",
                   !.stored = call.stored]

\* initial_password_setup(auth) up to its first prompt.
initial_password_setup_begin(session, steps) ==
    [NoCall EXCEPT !.fn = "initial_password_setup", !.session = session,
                   !.steps = steps, !.pc = "choose", !.stored = call.stored]

\* login_flow(auth, attempts) is called.
LoginFlow(attempts) ==
    /\ FlowIdle
    /\ call' = login_flow_begin(attempts, FALSE, <<>>)
    /\ UNCHANGED <<habits, manager_vars, db, auth_vars>>

\* LoginFlow_password with a loop that prompts once more after the last
\* attempt.
LoginFlow_password_one_more(answer) ==
    /\ call.fn = "login_flow"
    /\ call.pc = "password"
    /\ IF answer = <<>>
       THEN FlowReturns([call EXCEPT !.cancelled = TRUE], FALSE, db, current_user)
       ELSE LET result == login(db, current_user, answer[1])
                c == [call EXCEPT !.auth_calls =
                                     Append(@, [op |-> "login", password |-> answer[1],
                                                ok |-> result.ok])]
            IN  IF result.ok
                THEN FlowReturns(c, TRUE, db, result.current_user)
                ELSE IF call.attempt <= call.value
                THEN /\ call' = [c EXCEPT !.attempt = @ + 1]
                     /\ UNCHANGED <<habits, manager_vars, db, auth_vars>>
                ELSE FlowReturns(c, FALSE, db, result.current_user)

\* login_flow: the prompt "Password:" is answered, and the flow runs to its
\* next prompt or to its return.
LoginFlow_password(answer) ==
    /\ call.fn = "login_flow"
    /\ call.pc = "password"
    /\ IF answer = <<>>
       THEN FlowReturns([call EXCEPT !.cancelled = TRUE], FALSE, db, current_user)
       ELSE LET result == login(db, current_user, answer[1])
                c == [call EXCEPT !.auth_calls =
                                     Append(@, [op |-> "login", password |-> answer[1],
                                                ok |-> result.ok])]
            IN  IF result.ok
                THEN FlowReturns(c, TRUE, db, result.current_user)
                ELSE IF call.attempt < call.value
                THEN /\ call' = [c EXCEPT !.attempt = @ + 1]
                     /\ UNCHANGED <<habits, manager_vars, db, auth_vars>>
                ELSE FlowReturns(c, FALSE, db, result.current_user)

\* initial_password_setup(auth) is called.
InitialPasswordSetup ==
    /\ FlowIdle
    /\ call' = initial_password_setup_begin(FALSE, <<>>)
    /\ UNCHANGED <<habits, manager_vars, db, auth_vars>>

\* initial_password_setup: the prompt "Choose a password:" is answered.
InitialPasswordSetup_choose(answer) ==
    /\ call.fn = "initial_password_setup"
    /\ call.pc = "choose"
    /\ IF answer = <<>>
       THEN FlowReturns([call EXCEPT !.cancelled = TRUE], FALSE, db, current_user)
       ELSE /\ call' = [call EXCEPT !.pc = "confirm", !.pw1 = answer[1]]
            /\ UNCHANGED <<habits, manager_vars, db, auth_vars>>

\* InitialPasswordSetup_confirm without the strength check.
InitialPasswordSetup_confirm_weak(answer) ==
    /\ call.fn = "initial_password_setup"
    /\ call.pc = "confirm"
    /\ IF answer = <<>>
       THEN FlowReturns([call EXCEPT !.cancelled = TRUE], FALSE, db, current_user)
       ELSE IF \/ strip(call.pw1) = <<>>
               \/ call.pw1 # answer[1]
       THEN /\ call' = [call EXCEPT !.pc = "choose", !.pw2 = answer[1]]
            /\ UNCHANGED <<habits, manager_vars, db, auth_vars>>
       ELSE \E salt_bytes \in Salts :
               LET result == set_password(db, current_user, call.pw1, salt_bytes)
                   c == [call EXCEPT
                           !.pw2 = answer[1],
                           !.auth_calls =
                              Append(@, [op |-> "set_password", password |-> call.pw1,
                                         ok |-> ~result.raised]),
                           !.stored = IF result.raised THEN @ ELSE <<call.pw1>>]
               IN  IF result.raised
                   THEN /\ call' = [c EXCEPT !.pc = "raised", !.raised = TRUE]
                        /\ UNCHANGED <<habits, manager_vars, db, auth_vars>>
                   ELSE FlowReturns(c, TRUE, result.db, result.current_user)

\* initial_password_setup: the prompt "Confirm password:" is answered, and
\* the flow runs to its next prompt, to its return, or to the AuthError of
\* set_password.
InitialPasswordSetup_confirm(answer) ==
    /\ call.fn = "initial_password_setup"
    /\ call.pc = "confirm"
    /\ IF answer = <<>>
       THEN FlowReturns([call EXCEPT !.cancelled = TRUE], FALSE, db, current_user)
       ELSE IF \/ strip(call.pw1) = <<>>
               \/ call.pw1 # answer[1]
               \/ ~check_password_strength(call.pw1).ok
       THEN /\ call' = [call EXCEPT !.pc = "choose", !.pw2 = answer[1]]
            /\ UNCHANGED <<habits, manager_vars, db, auth_vars>>
       ELSE \E salt_bytes \in Salts :
               LET result == set_password(db, current_user, call.pw1, salt_bytes)
                   c == [call EXCEPT
                           !.pw2 = answer[1],
                           !.auth_calls =
                              Append(@, [op |-> "set_password", password |-> call.pw1,
                                         ok |-> ~result.raised]),
                           !.stored = IF result.raised THEN @ ELSE <<call.pw1>>]
               IN  IF result.raised
                   THEN /\ call' = [c EXCEPT !.pc = "raised", !.raised = TRUE]
                        /\ UNCHANGED <<habits, manager_vars, db, auth_vars>>
                   ELSE FlowReturns(c, TRUE, result.db, result.current_user)

\* _run_real_session() is called: SQLStore(), AuthManager(storage),
\* is_first_run(), and the authentication flow up to its first prompt.
RunRealSession ==
    /\ FlowIdle
    /\ current_user' = <<>>
    /\ LET first_run == SQLStore_load_user(db) = <<>>
           steps == <<[op |-> "is_first_run", ok |-> first_run]>>
       IN  call' = IF first_run
                   THEN initial_password_setup_begin(TRUE, steps)
                   ELSE login_flow_begin(DefaultAttempts, TRUE, steps)
    /\ UNCHANGED <<habits, manager_vars, db>>

NextSession ==
    \/ \E attempts \in 0..MaxAttempts : LoginFlow(attempts)
    \/ \E answer \in Answers : LoginFlow_password(answer)
    \/ InitialPasswordSetup
    \/ \E answer \in Answers : InitialPasswordSetup_choose(answer)
    \/ \E answer \in Answers : InitialPasswordSetup_confirm(answer)
    \/ RunRealSession

SpecSession == InitSession /\ [][NextSession]_vars

(***************************************************************************)
(* Properties                                                              *)
(***************************************************************************)
\* The habit the most recent call was about.
CallHabit == habits[call.habit]

\* The calendar days, and the Mondays of the calendar weeks, on which habit
\* h has a completion.
CompletedDays(h) ==
    {dt_date(h.completion_dates[i]) : i \in 1..Len(h.completion_dates)}

WeekMonday(d) == d - ((d + 6) % 7)

CompletedMondays(h) == {WeekMonday(d) : d \in CompletedDays(h)}

\* Length of the longest run x, x + step, x + 2*step, ... inside the set S.
LongestRun(S, step) ==
    IF S = {} THEN 0
    ELSE CHOOSE n \in 1..Cardinality(S) :
           /\ \E x \in S : \A k \in 0..(n - 1) : x + k * step \in S
           /\ \A m \in (n + 1)..Cardinality(S) :
                ~ \E x \in S : \A k \in 0..(m - 1) : x + k * step \in S

\* C1: for every habit and every reference date, the current streak is at
\* most the longest streak.
C1_CurrentAtMostLongest ==
    call.fn = "calculate_current_streak"
        => call.value <= calculate_streak(CallHabit)

\* A weekly current streak of three weeks, W52 and W53 of 2020 and W01 of
\* 2021, that equals the longest streak.
C1_Witness ==
    /\ call.fn = "calculate_current_streak"
    /\ CallHabit.periodicity = STR_weekly
    /\ call.today = Day0 + 14
    /\ call.value = 3
    /\ calculate_streak(CallHabit) = 3

\* C2: for a weekly habit calculate_streak is the length of the longest run
\* of calendar-consecutive ISO weeks (Mondays exactly 7 days apart) among the
\* completed weeks.
C2_WeeklyLongestIsCalendarRun ==
    (call.fn = "calculate_streak" /\ CallHabit.periodicity = STR_weekly)
        => call.value = LongestRun(CompletedMondays(CallHabit), 7)

\* The ascending, deduplicated list of the (ISO year, ISO week) keys of h.
AscendingWeekKeys(h) ==
    LET K == {iso_week_key(d) : d \in CompletedDays(h)}
    IN  CHOOSE ks \in [1..Cardinality(K) -> K] :
          \A i, j \in 1..Cardinality(K) :
             i < j => \/ ks[i][1] < ks[j][1]
                      \/ (ks[i][1] = ks[j][1] /\ ks[i][2] < ks[j][2])

\* Same ISO year and the next week number, or week 1 of the next ISO year
\* after week 52 or 53.
KeysConsecutive(a, b) ==
    \/ (b[1] = a[1] /\ b[2] = a[2] + 1)
    \/ (b[1] = a[1] + 1 /\ b[2] = 1 /\ (a[2] = 52 \/ a[2] = 53))

\* Length of the longest chain of adjacent consecutive keys in ks.
LongestChain(ks) ==
    LET Chain(i, j) == \A k \in i..(j - 1) : KeysConsecutive(ks[k], ks[k + 1])
        Lengths == {j - i + 1 : <<i, j>> \in
                      {p \in (1..Len(ks)) \X (1..Len(ks)) :
                         p[1] <= p[2] /\ Chain(p[1], p[2])}}
    IN  CHOOSE n \in Lengths : \A m \in Lengths : m <= n

\* C3: for a weekly habit calculate_streak is the length of the longest
\* chain of consecutive keys in the ascending, deduplicated list of (ISO
\* year, ISO week) keys, two adjacent keys being consecutive exactly when
\* they are in the same ISO year with the week increased by 1, or the later
\* is week 1 of the next ISO year and the earlier is week 52 or 53.
C3_WeeklyLongestIsKeyChain ==
    (/\ call.fn = "calculate_streak"
     /\ CallHabit.periodicity = STR_weekly
     /\ CallHabit.completion_dates # <<>>)
        => call.value = LongestChain(AscendingWeekKeys(CallHabit))

\* A chain of two across the year end, from week 53: 2020-W53 and 2021-W01,
\* with 2021-W52 as a chain of its own.
C3_Witness ==
    /\ call.fn = "calculate_streak"
    /\ CallHabit.periodicity = STR_weekly
    /\ AscendingWeekKeys(CallHabit) = <<<<2020, 53>>, <<2021, 1>>, <<2021, 52>>>>
    /\ call.value = 2

\* C4: for a daily habit calculate_streak is the length of the longest run of
\* consecutive calendar dates in the set of completion dates, and it is the
\* same for every ordering of the completion list.
C4_DailyLongestIsDateRun ==
    (call.fn = "calculate_streak" /\ CallHabit.periodicity = STR_daily)
        => /\ call.value = LongestRun(CompletedDays(CallHabit), 1)
           /\ \A perm \in Permutations(1..Len(CallHabit.completion_dates)) :
                calculate_streak(
                    [CallHabit EXCEPT !.completion_dates =
                        [i \in 1..Len(@) |-> @[perm[i]]]]) = call.value

\* A run of three days, then a gap, then a single day, the list starting
\* with the latest completion.
C4_Witness ==
    /\ call.fn = "calculate_streak"
    /\ CallHabit.periodicity = STR_daily
    /\ CompletedDays(CallHabit) = {Day0 + 6, Day0 + 7, Day0 + 8, Day0 + 14}
    /\ dt_date(CallHabit.completion_dates[1]) = Day0 + 14
    /\ call.value = 3

\* The strings that equal "weekly" when letter case is ignored.
WeeklyStrings == {STR_weekly, STR_Weekly}

\* Habit h has a completion in the period of datetime t: its ISO week for a
\* weekly habit, its calendar day for any other.
PeriodCompleted(h, t) ==
    IF h.periodicity \in WeeklyStrings
    THEN WeekMonday(dt_date(t)) \in CompletedMondays(h)
    ELSE dt_date(t) \in CompletedDays(h)

\* Habit h as it was before its latest completion was logged.
BeforeLast(h) ==
    [h EXCEPT !.completion_dates = SubSeq(@, 1, Len(@) - 1)]

\* The latest log_completion added a datetime in a period that already had
\* a completion.
LoggedDuplicate ==
    /\ call.fn = "log_completion"
    /\ PeriodCompleted(BeforeLast(CallHabit),
                       CallHabit.completion_dates[Len(CallHabit.completion_dates)])

\* C5: one more completion in a calendar day (daily habit) or ISO week
\* (weekly habit) that already has a completion changes neither
\* calculate_streak nor calculate_current_streak, whatever today is.
C5_DuplicateChangesNoStreak ==
    LoggedDuplicate
        => /\ calculate_streak(CallHabit) = calculate_streak(BeforeLast(CallHabit))
           /\ \A today \in Dates, now \in ClockDates :
                calculate_current_streak(CallHabit, today, now)
                    = calculate_current_streak(BeforeLast(CallHabit), today, now)

\* A second completion on the middle day of a run of three days.
C5_Witness ==
    /\ LoggedDuplicate
    /\ CallHabit.periodicity = STR_daily
    /\ Len(CallHabit.completion_dates) = 4
    /\ CallHabit.completion_dates[4] = datetime_at(Day0 + 7, 20)
    /\ CompletedDays(CallHabit) = {Day0 + 6, Day0 + 7, Day0 + 8}
    /\ calculate_streak(CallHabit) = 3

\* The number of periods x, x - step, x - 2*step, ... of S counted backward
\* from x up to the first one missing.
RunBack(S, x, step) ==
    CHOOSE n \in 0..Cardinality(S) :
       /\ \A k \in 0..(n - 1) : x - k * step \in S
       /\ x - n * step \notin S

\* C6: for a daily habit with completions the current streak is 0 when
\* neither today nor the day before is a completion date, and else the
\* number of consecutive completed days counted backward from today if it is
\* a completion date, from yesterday if not.
C6_DailyCurrent ==
    (/\ call.fn = "calculate_current_streak"
     /\ call.today # None
     /\ CallHabit.periodicity = STR_daily
     /\ CallHabit.completion_dates # <<>>)
        => LET S == CompletedDays(CallHabit)
               anchor == IF call.today \in S THEN call.today ELSE call.today - 1
           IN  IF call.today \notin S /\ (call.today - 1) \notin S
               THEN call.value = 0
               ELSE call.value = RunBack(S, anchor, 1)

\* Today has no completion, yesterday and the day before have: a streak of
\* two counted from yesterday.
C6_Witness ==
    /\ call.fn = "calculate_current_streak"
    /\ CallHabit.periodicity = STR_daily
    /\ call.today = Day0 + 8
    /\ CompletedDays(CallHabit) = {Day0 + 6, Day0 + 7}
    /\ call.value = 2

\* C7: for a weekly habit with completions the current streak is 0 when
\* neither the ISO week of today nor the week before has a completion, and
\* else the number of consecutive completed ISO weeks counted backward from
\* this week if completed, from last week if not, the week before a week
\* being the one whose Monday is 7 days earlier.
C7_WeeklyCurrent ==
    (/\ call.fn = "calculate_current_streak"
     /\ call.today # None
     /\ CallHabit.periodicity = STR_weekly
     /\ CallHabit.completion_dates # <<>>)
        => LET S == CompletedMondays(CallHabit)
               monday == WeekMonday(call.today)
               anchor == IF monday \in S THEN monday ELSE monday - 7
           IN  IF monday \notin S /\ (monday - 7) \notin S
               THEN call.value = 0
               ELSE call.value = RunBack(S, anchor, 7)

\* Today is in 2021-W01, which has no completion; 2020-W53 and 2020-W52
\* have: a streak of two counted from last week, in the year before.
C7_Witness ==
    /\ call.fn = "calculate_current_streak"
    /\ CallHabit.periodicity = STR_weekly
    /\ call.today = Day0 + 14
    /\ CompletedMondays(CallHabit) = {Day0, Day0 + 7}
    /\ call.value = 2

\* The largest calculate_streak among the habits hs, 0 when there is none.
MaxStreak(hs) ==
    LET V == {calculate_streak(hs[i]) : i \in 1..Len(hs)} \cup {0}
    IN  CHOOSE n \in V : \A m \in V : m <= n

\* The habits of hs whose calculate_streak is n, in the order of hs.
HabitsWithStreak(hs, n) ==
    LET Has(h) == calculate_streak(h) = n IN SelectSeq(hs, Has)

\* C8: longest_streak_overall returns as streak the maximum of
\* calculate_streak over the habits (0 for none) and as habits exactly the
\* habits with that streak, each once and in input order, when the maximum
\* is positive, and no habit when it is 0.
C8_OverallIsMaxWithAllTies ==
    call.fn = "longest_streak_overall"
        => /\ call.value = MaxStreak(habits)
           /\ call.best = IF MaxStreak(habits) > 0
                          THEN HabitsWithStreak(habits, MaxStreak(habits))
                          ELSE <<>>

\* Three habits, the first and the third tied at a streak of 2.
C8_Witness ==
    /\ call.fn = "longest_streak_overall"
    /\ Len(habits) = 3
    /\ call.value = 2
    /\ call.best = <<habits[1], habits[3]>>
    /\ calculate_streak(habits[2]) = 1

\* Two calls in a row of the same function with the same arguments.
SameCallAgain ==
    /\ call.fn \in {"calculate_streak", "calculate_current_streak"}
    /\ call'.fn = call.fn
    /\ call'.habit = call.habit
    /\ call'.today = call.today
    /\ habits' = habits

\* C9 as stated: calculate_current_streak and calculate_streak depend on
\* their arguments alone, the system clock never being consulted, so two
\* calls with identical arguments return identical results.
C9_SameArgumentsSameResult ==
    [][SameCallAgain => call'.value = call.value]_vars

\* C9, amended: two calls with identical arguments return identical results
\* when today is passed to calculate_current_streak, and always for
\* calculate_streak.
C9_SameResultWhenTodayPassed ==
    [][(SameCallAgain /\ (call.fn = "calculate_current_streak" => call.today # None))
          => call'.value = call.value]_vars

\* A call with today passed, on a habit whose current streak is 1 on one
\* of the days the clock may show and 0 on the other.
C9_Witness ==
    /\ call.fn = "calculate_current_streak"
    /\ call.today = Day0 + 8
    /\ call.value = 1
    /\ \E c \in ClockDates : calculate_current_streak(CallHabit, None, c) = 0

\* C10: a habit with no completions has calculate_streak = 0 and
\* calculate_current_streak = 0, for every periodicity string and every
\* today.
C10_NoCompletionsIsZero ==
    (/\ call.fn \in {"calculate_streak", "calculate_current_streak"}
     /\ CallHabit.completion_dates = <<>>)
        => call.value = 0

\* The current streak of an empty habit with an unrecognised periodicity.
C10_Witness ==
    /\ call.fn = "calculate_current_streak"
    /\ CallHabit.completion_dates = <<>>
    /\ CallHabit.periodicity = STR_monthly
    /\ call.today = Day1 + 7
    /\ call.value = 0

\* The functions of the analytics module.
AnalyticsFunctions ==
    {"list_all_habits", "list_habits_by_periodicity", "calculate_streak",
     "longest_streak_overall", "longest_streak_by_habit", "calculate_current_streak"}

\* C11: no analytics function changes its inputs: after the call the
\* collection holds the same habits in the same order, and the
\* completion_dates list of every habit has the same elements in the same
\* order as before.
C11_InputsUnchanged ==
    [][call'.fn \in AnalyticsFunctions => habits' = habits]_vars

\* calculate_streak was called on the second of three habits, whose
\* completion list starts with its later date, and the list is as it was.
C11_Witness ==
    /\ call.fn = "calculate_streak"
    /\ Len(habits) = 3
    /\ call.habit = 2
    /\ CallHabit.periodicity = STR_daily
    /\ CallHabit.completion_dates = <<datetime_at(Day0 + 8, 8), datetime_at(Day0 + 7, 8)>>
    /\ call.value = 2

\* The two letters of each letter of the alphabet, and a character alone
\* when it is no letter.
CaseVariants(c) ==
    {c} \cup UNION {{UpperChars[i], LowerChars[i]} :
                      i \in {j \in 1..Len(UpperChars) : c \in {UpperChars[j], LowerChars[j]}}}

\* Strings s and t are equal when letter case is ignored.
SameIgnoringCase(s, t) ==
    /\ Len(s) = Len(t)
    /\ \A i \in 1..Len(s) : t[i] \in CaseVariants(s[i])

\* What the daily and the weekly rules give for the longest streak of h.
DailyLongest(h) == LongestRun(CompletedDays(h), 1)

WeeklyLongest(h) ==
    IF h.completion_dates = <<>> THEN 0 ELSE LongestChain(AscendingWeekKeys(h))

\* What the daily and the weekly rules give for the current streak of h on
\* the day today.
DailyCurrent(h, today) ==
    LET S == CompletedDays(h)
    IN  IF today \in S THEN RunBack(S, today, 1)
        ELSE IF (today - 1) \in S THEN RunBack(S, today - 1, 1)
             ELSE 0

WeeklyCurrent(h, today) ==
    LET S == CompletedMondays(h)
        monday == WeekMonday(today)
    IN  IF monday \in S THEN RunBack(S, monday, 7)
        ELSE IF (monday - 7) \in S THEN RunBack(S, monday - 7, 7)
             ELSE 0

\* C12: calculate_streak and calculate_current_streak handle a habit by the
\* weekly rules exactly when its periodicity string equals "weekly" ignoring
\* letter case; every other periodicity string is handled by the daily
\* rules, and the call returns a streak, not an error.
C12_WeeklyRulesIffWeeklyIgnoringCase ==
    /\ call.fn = "calculate_streak"
         => /\ call.value \in Nat
            /\ call.value = IF SameIgnoringCase(CallHabit.periodicity, STR_weekly)
                            THEN WeeklyLongest(CallHabit)
                            ELSE DailyLongest(CallHabit)
    /\ (call.fn = "calculate_current_streak" /\ call.today # None)
         => /\ call.value \in Nat
            /\ call.value = IF SameIgnoringCase(CallHabit.periodicity, STR_weekly)
                            THEN WeeklyCurrent(CallHabit, call.today)
                            ELSE DailyCurrent(CallHabit, call.today)

\* A habit stored as "Weekly" with completions on two consecutive days of
\* one ISO week: the weekly rules give 1 where the daily rules give 2.
C12_Witness ==
    /\ call.fn = "calculate_streak"
    /\ CallHabit.periodicity = STR_Weekly
    /\ CompletedDays(CallHabit) = {Day0 + 7, Day0 + 8}
    /\ call.value = 1
    /\ DailyLongest(CallHabit) = 2

\* The positions in hs of the habits with the id habit_id.
PositionsWithId(hs, habit_id) ==
    {i \in 1..Len(hs) : hs[i].habit_id = habit_id}

\* C13: longest_streak_by_habit returns 0, and raises nothing, when no
\* habit of the collection has the id, and otherwise calculate_streak of the
\* habit with that id.
C13_ByHabitIsStreakOrZero ==
    call.fn = "longest_streak_by_habit"
        => /\ call.value \in Nat
           /\ IF PositionsWithId(habits, call.arg) = {}
              THEN call.value = 0
              ELSE \A i \in PositionsWithId(habits, call.arg) :
                      call.value = calculate_streak(habits[i])

\* The habit with id 1 is the last of three and has a streak of 2, while
\* the first habit of the list has none.
C13_Witness ==
    /\ call.fn = "longest_streak_by_habit"
    /\ call.arg = 1
    /\ Len(habits) = 3
    /\ habits[3].habit_id = 1
    /\ calculate_streak(habits[1]) = 0
    /\ call.value = 2

\* A lookup of an id no habit has: three habits with the ids 2, 3 and 4.
C13_WitnessNotFound ==
    /\ call.fn = "longest_streak_by_habit"
    /\ call.arg = 1
    /\ Len(habits) = 3
    /\ PositionsWithId(habits, 1) = {}
    /\ calculate_streak(habits[1]) = 2
    /\ call.value = 0

\* The positions in hs of the habits whose periodicity equals p ignoring
\* letter case.
PositionsWithPeriodicity(hs, p) ==
    {i \in 1..Len(hs) : SameIgnoringCase(hs[i].periodicity, p)}

\* C14: list_habits_by_periodicity returns exactly the habits whose
\* periodicity string equals the argument ignoring letter case, each once,
\* in their input order, and nothing else.
C14_ByPeriodicityIsOrderedFilter ==
    call.fn = "list_habits_by_periodicity"
        => LET P == PositionsWithPeriodicity(habits, call.arg)
           IN  /\ Len(call.best) = Cardinality(P)
               /\ \E f \in [1..Len(call.best) -> P] :
                     /\ \A j, k \in 1..Len(call.best) : j < k => f[j] < f[k]
                     /\ \A j \in 1..Len(call.best) : call.best[j] = habits[f[j]]

\* Asked for "WEEKLY", of the habits "weekly", "daily", "Weekly" the first
\* and the third are returned, in that order.
C14_Witness ==
    /\ call.fn = "list_habits_by_periodicity"
    /\ call.arg = STR_WEEKLY
    /\ Len(habits) = 3
    /\ habits[1].periodicity = STR_weekly
    /\ habits[2].periodicity = STR_daily
    /\ habits[3].periodicity = STR_Weekly
    /\ call.best = <<habits[1], habits[3]>>

\* Datetimes t and u are in one period of habit h: one ISO week when its
\* periodicity is "weekly" ignoring case, one calendar day for any other.
SamePeriod(h, t, u) ==
    IF SameIgnoringCase(h.periodicity, STR_weekly)
    THEN WeekMonday(dt_date(t)) = WeekMonday(dt_date(u))
    ELSE dt_date(t) = dt_date(u)

\* Habit h holds no two completion timestamps in one period.
OnePerPeriod(h) ==
    \A j, k \in 1..Len(h.completion_dates) :
       j # k => ~SamePeriod(h, h.completion_dates[j], h.completion_dates[k])

\* C15: from a HabitManager with no habits, after any sequence of add_habit,
\* log_completion and remove_habit calls no habit holds two completion
\* timestamps in the same period: the same ISO (year, week) for a habit
\* whose periodicity is "weekly" ignoring case, the same calendar date for
\* every other habit.
C15_OneCompletionPerPeriod ==
    /\ \A i \in 1..Len(habits) : OnePerPeriod(habits[i])
    /\ \A id \in DOMAIN habit_by_id : OnePerPeriod(habit_by_id[id])

\* A daily habit completed on Monday and on Tuesday, after a log_completion
\* for Monday evening was turned down.
C15_Witness ==
    /\ call.fn = "log_completion"
    /\ ~call.ok
    /\ call.when = datetime_at(Day0 + 7, 20)
    /\ call.arg \in DOMAIN habit_by_id
    /\ habit_by_id[call.arg].periodicity = STR_daily
    /\ habit_by_id[call.arg].completion_dates
          = <<datetime_at(Day0 + 7, 8), datetime_at(Day0 + 8, 8)>>

\* The positions in the manager's list of the habits with the id habit_id.
Listed(habit_id) == PositionsWithId(habits, habit_id)

\* The calls of the operation op among the storage calls of a call record.
StorageCalls(c, op) ==
    LET is_op(sc) == sc.op = op IN SelectSeq(c.storage_calls, is_op)

\* C16: HabitManager.log_completion(habit_id, when) returns True exactly
\* when the habit exists and has no completion in the period of when; when
\* it returns False the completion list of every habit is unchanged and
\* storage.log_completion is not called; when it returns True the datetime
\* is appended to the list of that habit and handed to the storage once.
C16_LogCompletionTrueIffNewPeriod ==
    [][call'.fn = "log_completion" =>
         LET id == call'.arg
             accepted == /\ Listed(id) # {}
                         /\ \A i \in Listed(id) : ~PeriodCompleted(habits[i], call'.when)
         IN  /\ call'.ok = accepted
             /\ ~call'.ok =>
                   /\ habits' = habits
                   /\ habit_by_id' = habit_by_id
                   /\ db' = db
                   /\ StorageCalls(call', "log_completion") = <<>>
             /\ call'.ok =>
                   /\ habits' = [i \in 1..Len(habits) |->
                                   IF i \in Listed(id)
                                   THEN [habits[i] EXCEPT !.completion_dates =
                                            Append(@, call'.when)]
                                   ELSE habits[i]]
                   /\ StorageCalls(call', "log_completion")
                         = <<[op |-> "log_completion", habit_id |-> id,
                              when |-> call'.when]>>
    ]_vars

\* A habit stored as "Weekly" and completed on Monday: a log_completion for
\* the Tuesday of that week returned False, and the one habit is as it was.
C16_Witness ==
    /\ call.fn = "log_completion"
    /\ ~call.ok
    /\ call.when = datetime_at(Day0 + 8, 8)
    /\ Len(habits) = 1
    /\ habits[1].habit_id = call.arg
    /\ habits[1].periodicity = STR_Weekly
    /\ habits[1].completion_dates = <<datetime_at(Day0 + 7, 8)>>
    /\ call.storage_calls = <<>>

\* The datetimes of the tracking rows of the habit habit_id in database d.
StoredCompletions(d, habit_id) ==
    {fromisoformat(r.completion_date) :
        r \in {t \in BagToSet(d.tracking) : t.habit_id = habit_id}}

\* The number of tracking rows of the habit habit_id in database d.
StoredCompletionCount(d, habit_id) ==
    LET rows == {t \in BagToSet(d.tracking) : t.habit_id = habit_id}
        RECURSIVE total(_)
        total(S) == IF S = {} THEN 0
                    ELSE LET r == CHOOSE x \in S : TRUE
                         IN  CopiesIn(r, d.tracking) + total(S \ {r})
    IN  total(rows)

\* The completion timestamps of habit h, as a set.
CompletionSet(h) == {h.completion_dates[k] : k \in 1..Len(h.completion_dates)}

\* Database d holds exactly the habits hs: the same ids in the same order
\* with the same periodicities, for each habit one tracking row for each
\* of its completion timestamps, and no other tracking row.
StorageHolds(d, hs) ==
    /\ Len(d.habits) = Len(hs)
    /\ \A i \in 1..Len(hs) :
          /\ d.habits[i].id = hs[i].habit_id
          /\ d.habits[i].periodicity = hs[i].periodicity
          /\ StoredCompletions(d, hs[i].habit_id) = CompletionSet(hs[i])
          /\ StoredCompletionCount(d, hs[i].habit_id) = Len(hs[i].completion_dates)
    /\ \A r \in BagToSet(d.tracking) : PositionsWithId(hs, r.habit_id) # {}

\* C17: with a storage backend every accepted add_habit, log_completion and
\* remove_habit is written through at once: after any sequence of these
\* calls the storage holds exactly the manager's habits, with the same ids,
\* periodicities and sets of completion timestamps, and a new HabitManager
\* built on that storage lists the same habits, with habit_id_counter equal
\* to the largest stored id (0 when no habit is stored).
C17_StorageMirrorsManager ==
    /\ StorageHolds(db, habits)
    /\ LET reloaded == loaded_habits(SQLStore_load_habits(db))
       IN  /\ Len(reloaded) = Len(habits)
           /\ \A i \in 1..Len(habits) :
                 /\ reloaded[i].habit_id = habits[i].habit_id
                 /\ reloaded[i].periodicity = habits[i].periodicity
                 /\ CompletionSet(reloaded[i]) = CompletionSet(habits[i])
                 /\ Len(reloaded[i].completion_dates) = Len(habits[i].completion_dates)
           /\ counter_after_load(reloaded, 0)
                 = IF db.habits = <<>> THEN 0
                   ELSE max({db.habits[r].id : r \in 1..Len(db.habits)})

\* The first of two habits was removed; the second, daily, was completed on
\* Tuesday and then on Monday evening, and is the one habit stored.
C17_Witness ==
    /\ call.fn = "remove_habit"
    /\ call.ok
    /\ call.arg = 1
    /\ Len(habits) = 1
    /\ habits[1].habit_id = 2
    /\ habits[1].completion_dates = <<datetime_at(Day0 + 8, 8), datetime_at(Day0 + 7, 20)>>
    /\ Len(db.habits) = 1
    /\ StoredCompletions(db, 2) = {datetime_at(Day0 + 8, 8), datetime_at(Day0 + 7, 20)}

\* The ids of the listed habits are pairwise distinct and none is above the
\* counter.
ListedIdsDistinct(hs, counter) ==
    /\ \A i, j \in 1..Len(hs) : i # j => hs[i].habit_id # hs[j].habit_id
    /\ \A i \in 1..Len(hs) : hs[i].habit_id \in 1..counter

\* C18: without storage the k-th add_habit call returns a habit with id k,
\* whatever removals happened in between. The counter starts at 0; add_habit
\* returns the counter plus one, which is above the id of every habit listed,
\* and leaves the counter at the id returned; no other call changes the
\* counter; the ids of the listed habits are pairwise distinct. So ids start
\* at 1, increase by 1, and the id of a removed habit is not given again.
C18_InMemoryIdsCountAddCalls ==
    [][/\ call'.fn = "add_habit" =>
             /\ call'.value = habit_id_counter + 1
             /\ habit_id_counter' = call'.value
             /\ \A i \in 1..Len(habits) : habits[i].habit_id < call'.value
             /\ habits' = Append(habits, habits'[Len(habits')])
             /\ habits'[Len(habits')].habit_id = call'.value
       /\ call'.fn # "add_habit" => habit_id_counter' = habit_id_counter
       /\ ListedIdsDistinct(habits', habit_id_counter')
    ]_vars

\* The second add_habit call returned id 2 after the first habit had been
\* removed: the one habit listed has id 2.
C18_Witness ==
    /\ storage = None
    /\ call.fn = "add_habit"
    /\ call.value = 2
    /\ Len(habits) = 1
    /\ habits[1].habit_id = 2
    /\ habit_id_counter = 2

\* The list hs without the habits at the positions P.
WithoutPositions(hs, P) ==
    LET keep == {i \in 1..Len(hs) : i \notin P}
        RECURSIVE pick(_, _)
        pick(i, acc) == IF i > Len(hs) THEN acc
                        ELSE pick(i + 1, IF i \in keep THEN Append(acc, hs[i]) ELSE acc)
    IN  pick(1, <<>>)

\* C19: HabitManager.remove_habit(id) returns True exactly when a habit with
\* that id is registered; afterwards that habit is no longer in
\* list_habits() and every other habit is unchanged, storage.delete_habit(id)
\* having been called once; a failed removal changes nothing and calls
\* delete_habit not at all; and while no habit with the id is listed, both
\* remove_habit(id) and log_completion(id) return False.
C19_RemoveHabit ==
    [][/\ call'.fn = "remove_habit" =>
             LET id == call'.arg
             IN  /\ call'.ok = (Listed(id) # {})
                 /\ call'.ok =>
                       /\ habits' = WithoutPositions(habits, Listed(id))
                       /\ PositionsWithId(habits', id) = {}
                       /\ StorageCalls(call', "delete_habit")
                             = <<[op |-> "delete_habit", habit_id |-> id, when |-> None]>>
                 /\ ~call'.ok =>
                       /\ habits' = habits
                       /\ db' = db
                       /\ StorageCalls(call', "delete_habit") = <<>>
       /\ (call'.fn \in {"remove_habit", "log_completion"} /\ Listed(call'.arg) = {})
             => ~call'.ok
    ]_vars

\* Habit 1 was removed before and is removed again: the call returned False,
\* and habit 2 with its completion is still listed.
C19_Witness ==
    /\ call.fn = "remove_habit"
    /\ ~call.ok
    /\ call.arg = 1
    /\ db.sequence = 2
    /\ Len(habits) = 1
    /\ habits[1].habit_id = 2
    /\ habits[1].completion_dates = <<datetime_at(Day0 + 7, 8)>>
    /\ call.storage_calls = <<>>

\* AuthManager.login(p) would return True in the present state.
LoginAccepts(p) ==
    /\ SQLStore_load_user(db) # <<>>
    /\ verify_password(p, SQLStore_load_user(db)[1])

C21_SetOnlyFirstChangeOnlyLater ==
    [][ /\ call'.fn = "set_password"
           => IF SQLStore_load_user(db) # <<>>
              THEN call'.raised /\ ~call'.ok /\ db' = db
              ELSE call'.ok /\ ~call'.raised /\ SQLStore_load_user(db') # <<>>
        /\ call'.fn = "change_password"
           => IF SQLStore_load_user(db) = <<>>
              THEN call'.raised /\ ~call'.ok /\ db' = db
              ELSE ~call'.raised
        /\ SQLStore_load_user(db) # <<>> => SQLStore_load_user(db') # <<>>
        /\ call'.fn = "is_first_run"
           => /\ call'.ok <=> SQLStore_load_user(db) = <<>>
              /\ call.stored # <<>> => ~call'.ok
      ]_vars

\* set_password("b") raised AuthError while the user stored with "a" stays.
C21_Witness ==
    /\ call.fn = "set_password"
    /\ call.raised
    /\ call.arg = <<"b">>
    /\ call.stored = <<<<"a">>>>
    /\ LoginAccepts(<<"a">>)

\* change_password raised AuthError on a database without user.
C21_WitnessNoUser ==
    /\ call.fn = "change_password"
    /\ call.raised
    /\ SQLStore_load_user(db) = <<>>

\* C22: login with a wrong password and change_password with a wrong old
\* password return False and leave the stored credentials and the value of
\* get_current_user() as they were; get_current_user() is None until the
\* first successful set_password, login or change_password.
C22_FailedAttemptChangesNothing ==
    [][ /\ (call'.fn \in {"login", "change_password"} /\ ~LoginAccepts(call'.arg)
              /\ ~call'.raised)
           => ~call'.ok /\ db' = db /\ current_user' = current_user
        /\ (current_user = <<>> /\ current_user' # <<>>)
           => call'.fn \in {"set_password", "login", "change_password"} /\ call'.ok
        /\ call'.fn = "get_current_user"
           => call'.best = current_user /\ current_user' = current_user
      ]_vars

\* login("b") failed in a new session on a database whose password is "a":
\* nobody is logged in.
C22_Witness ==
    /\ call.fn = "login"
    /\ call.arg = <<"b">>
    /\ ~call.ok
    /\ LoginAccepts(<<"a">>)
    /\ current_user = <<>>

\* get_current_user() returned the user after a login in a new session.
C22_WitnessLoggedIn ==
    /\ call.fn = "get_current_user"
    /\ call.best # <<>>
    /\ call.best = SQLStore_load_user(db)

\* The bag of the elements of sequence s.
BagOfSeq(s) ==
    [x \in {s[i] : i \in 1..Len(s)} |-> Cardinality({i \in 1..Len(s) : s[i] = x})]

\* The datetimes of s never go down.
Ascending(s) == \A i \in 1..(Len(s) - 1) : s[i] <= s[i + 1]

\* The datetimes that the tracking rows of d under habit_id were logged
\* with, as a bag.
LoggedUnder(d, habit_id) ==
    LET rows == {r \in BagToSet(d.tracking) : r.habit_id = habit_id}
        whens == {w \in DOMAIN IsoFormats : \E r \in rows : r.completion_date = IsoFormats[w]}
    IN  [w \in whens |->
            CopiesIn([habit_id |-> habit_id, completion_date |-> IsoFormats[w]],
                     d.tracking)]

C23_WitnessRepeated ==
    /\ call.fn = "load_habits"
    /\ \E i \in 1..Len(call.best) :
          /\ Len(call.best[i].completion_dates) = 3
          /\ BagToSet(BagOfSeq(call.best[i].completion_dates)) = {StoreDatetimes[2]}

\* The ids of the habits that save_habit stored and delete_habit deleted.
DeletedIds(d) == (1..d.sequence) \ {d.habits[r].id : r \in 1..Len(d.habits)}

\* C24: SQLStore.delete_habit(id) removes the habit row and every tracking
\* row of that habit and leaves every other habit and its completions
\* unchanged, so after any sequence of store operations no tracking row
\* refers to a deleted habit.
C24_NoTrackingRowOfDeletedHabit ==
    \A r \in BagToSet(db.tracking) : r.habit_id \notin DeletedIds(db)

\* AuthManager.login(p) would return True on database d.
Accepts(d, p) ==
    /\ SQLStore_load_user(d) # <<>>
    /\ verify_password(p, SQLStore_load_user(d)[1])

\* auth.login or auth.set_password returned normally in call i of the flow
\* of record c: for login that means it returned True.
CallOk(c, i) == c.auth_calls[i].ok

\* The tables habits and tracking of d.
HabitData(d) == <<d.habits, d.tracking>>

\* C25: in a real session the habit manager is created and the main menu is
\* entered only after authentication succeeded: on first run only after
\* initial_password_setup returned True, otherwise only after login_flow
\* returned True; when either returns False the session ends without loading
\* or changing any habit data.
C25_ManagerOnlyAfterAuthentication ==
    [][ LET c == call'
        IN  c.session =>
            /\ c.steps[1].op = "is_first_run"
            /\ (Len(c.steps) = 1 /\ call.steps # c.steps)
                  => (c.steps[1].ok <=> SQLStore_load_user(db) = <<>>)
            /\ c.fn = IF c.steps[1].ok THEN "initial_password_setup"
                                      ELSE "login_flow"
            /\ \A i \in 1..Len(c.steps) :
                  /\ c.steps[i].op = "HabitManager"
                        => /\ i = 3
                           /\ c.steps[2] = [op |-> c.fn, ok |-> TRUE]
                           /\ c.ok
                           /\ \E k \in 1..Len(c.auth_calls) : CallOk(c, k)
                  /\ c.steps[i].op \in {"seed_predefined_habits", "main_menu"}
                        => c.steps[i - 1].op \in {"HabitManager",
                                                  "seed_predefined_habits"}
            /\ (Returned(c) /\ ~c.ok)
                  => /\ c.pc = "returned"
                     /\ c.steps[Len(c.steps)] = [op |-> c.fn, ok |-> FALSE]
                     /\ \A i \in 1..Len(c.steps) : c.steps[i].op # "HabitManager"
            /\ c.pc # "main_menu"
                  => /\ habits' = habits
                     /\ manager_vars' = manager_vars
                     /\ HabitData(db') = HabitData(db)
      ]_vars

\* A session on a database with a user and habits entered the main menu
\* after a wrong and a right password.
C25_Witness ==
    /\ call.session
    /\ call.fn = "login_flow"
    /\ call.pc = "main_menu"
    /\ Len(call.auth_calls) = 2
    /\ Len(habits) = Len(PREDEFINED_HABITS)
    /\ Len(db.habits) = Len(PREDEFINED_HABITS)

\* A session ended after three wrong passwords, with no habit in the
\* database.
C25_WitnessRefused ==
    /\ call.session
    /\ call.fn = "login_flow"
    /\ call.pc = "returned"
    /\ Len(call.auth_calls) = DefaultAttempts
    /\ db.habits = <<>>

\* C26: login_flow(auth, attempts) calls auth.login at most attempts times,
\* stops at the first successful login or the first cancelled prompt, and
\* returns True exactly when one of its auth.login calls returned True;
\* after attempts wrong passwords it returns False.
C26_LoginFlow ==
    [][ LET c == call'
            n == Len(c.auth_calls)
        IN  c.fn = "login_flow" =>
            /\ n <= c.value
            /\ \A i \in 1..n :
                  /\ c.auth_calls[i].op = "login"
                  /\ CallOk(c, i) <=> Accepts(db, c.auth_calls[i].password)
                  /\ CallOk(c, i) => i = n /\ Returned(c)
            /\ c.cancelled => Returned(c) /\ ~c.ok /\ c.auth_calls = call.auth_calls
            /\ Returned(c) => (c.ok <=> \E i \in 1..n : CallOk(c, i))
            /\ (n = c.value /\ \A i \in 1..n : ~CallOk(c, i)) => Returned(c) /\ ~c.ok
            /\ ~Returned(c) => c.pc = "password"
            /\ (call.fn = "login_flow" /\ Returned(call)) => n = 0
      ]_vars

\* login_flow(auth, 2) returned True after a wrong and a right password.
C26_Witness ==
    /\ call.fn = "login_flow"
    /\ ~call.session
    /\ call.value = MaxAttempts
    /\ call.pc = "returned"
    /\ call.ok
    /\ Len(call.auth_calls) = 2
    /\ ~CallOk(call, 1)

\* login_flow(auth, 2) returned False after two wrong passwords, with a user
\* stored.
C26_WitnessExhausted ==
    /\ call.fn = "login_flow"
    /\ call.value = MaxAttempts
    /\ call.pc = "returned"
    /\ ~call.ok
    /\ ~call.cancelled
    /\ Len(call.auth_calls) = MaxAttempts
    /\ SQLStore_load_user(db) # <<>>

\* C27: initial_password_setup calls auth.set_password at most once, and
\* only with a password that is not blank, was entered identically twice and
\* for which check_password_strength reported ok; it returns True only after
\* that call and returns False without storing any password when a prompt is
\* cancelled.
C27_InitialPasswordSetup ==
    [][ LET c == call'
            n == Len(c.auth_calls)
        IN  c.fn = "initial_password_setup" =>
            /\ n <= 1
            /\ \A i \in 1..n :
                  LET p == c.auth_calls[i].password
                  IN  /\ c.auth_calls[i].op = "set_password"
                      /\ strip(p) # <<>>
                      /\ c.pw1 = p /\ c.pw2 = p
                      /\ check_password_strength(p).ok
                      /\ call.pc = "confirm"
                      /\ CallOk(c, i) <=> SQLStore_load_user(db) = <<>>
            /\ (Returned(c) /\ c.ok)
                  => /\ n = 1 /\ CallOk(c, 1)
                     /\ Accepts(db', c.auth_calls[1].password)
            /\ c.cancelled
                  => /\ Returned(c) /\ ~c.ok /\ n = 0
                     /\ SQLStore_load_user(db') = SQLStore_load_user(db)
            /\ n = 0 => SQLStore_load_user(db') = SQLStore_load_user(db)
      ]_vars

\* initial_password_setup returned True after storing "Abcdef12".
C27_Witness ==
    /\ call.fn = "initial_password_setup"
    /\ call.pc = "returned"
    /\ call.ok
    /\ call.auth_calls = <<[op |-> "set_password", password |-> TypedStrong,
                            ok |-> TRUE]>>
    /\ Accepts(db, TypedStrong)
    /\ ~Accepts(db, TypedWeak)

\* initial_password_setup returned False when the confirmation of a strong
\* password was cancelled: no user is stored.
C27_WitnessCancelled ==
    /\ call.fn = "initial_password_setup"
    /\ call.pc = "returned"
    /\ call.cancelled
    /\ call.pw1 = TypedStrong
    /\ SQLStore_load_user(db) = <<>>

(***************************************************************************)
(* Monotonicity of the streaks in the completions                          *)
(***************************************************************************)
\* A habit, with any completion list, that receives completions: the streak
\* functions are pure, so the habits they can be given are the ones
\* Habit.log_completion builds.
NextCompletions ==
    \E i \in 1..Len(habits), when \in Timestamps : Habit_log_completion(i, when)

SpecCompletions == Init /\ [][NextCompletions]_vars

\* C28: a completion added to a habit decreases neither calculate_streak nor
\* calculate_current_streak, for every today (passed, or read from the
\* clock): each is at least its value for the habit before the completion.
C28_ExtraCompletionNeverDecreases ==
    call.fn = "log_completion"
        => /\ calculate_streak(CallHabit) >= calculate_streak(BeforeLast(CallHabit))
           /\ \A today \in TodayArgs, now \in ClockDates :
                calculate_current_streak(CallHabit, today, now)
                    >= calculate_current_streak(BeforeLast(CallHabit), today, now)

\* A daily habit completed yesterday and the day before gets a completion
\* today: the current streak moves from 2 to 3, and so does the longest.
C28_Witness ==
    /\ call.fn = "log_completion"
    /\ CallHabit.periodicity = STR_daily
    /\ CompletedDays(BeforeLast(CallHabit)) = {Day0 + 6, Day0 + 7}
    /\ CompletedDays(CallHabit) = {Day0 + 6, Day0 + 7, Day0 + 8}
    /\ calculate_current_streak(BeforeLast(CallHabit), Day0 + 8, Day0 + 8) = 2
    /\ calculate_current_streak(CallHabit, Day0 + 8, Day0 + 8) = 3
    /\ calculate_streak(BeforeLast(CallHabit)) = 2
    /\ calculate_streak(CallHabit) = 3

\* A weekly habit completed in ISO weeks 2020-W52 and 2021-W01 gets a
\* completion in 2020-W53, the week between them.
C28_WitnessWeekBetween ==
    /\ call.fn = "log_completion"
    /\ CallHabit.periodicity \in WeeklyStrings
    /\ Cardinality(CompletedMondays(BeforeLast(CallHabit))) = 2
    /\ Cardinality(CompletedMondays(CallHabit)) = 3
    /\ calculate_streak(BeforeLast(CallHabit)) = 2
    /\ calculate_streak(CallHabit) = 3

(***************************************************************************)
(* Completions after the reference period                                  *)
(***************************************************************************)
\* Datetime t lies after the period of date ref for habit h: in a later ISO
\* week for a weekly habit, on a later calendar day for any other.
AfterPeriod(h, t, ref) ==
    IF h.periodicity \in WeeklyStrings
    THEN WeekMonday(dt_date(t)) > WeekMonday(ref)
    ELSE dt_date(t) > ref

\* Habit h with its completions after the period of ref removed.
WithoutLater(h, ref) ==
    [h EXCEPT !.completion_dates =
        SelectSeq(@, LAMBDA t : ~AfterPeriod(h, t, ref))]

\* The date calculate_current_streak counts from: today, or the clock's date
\* when today is None.
Reference(today, now) == IF today = None THEN now ELSE today

\* C29: completions after the reference period do not affect the current
\* streak: for every today (passed, or read from the clock),
\* calculate_current_streak of a habit equals its value for the habit with
\* the completions on days after today (ISO weeks after the week of today,
\* for a weekly habit) removed.
C29_LaterCompletionsChangeNothing ==
    \A i \in DOMAIN habits : \A today \in TodayArgs, now \in ClockDates :
        calculate_current_streak(habits[i], today, now)
            = calculate_current_streak(
                  WithoutLater(habits[i], Reference(today, now)), today, now)

\* A daily habit with a current streak of 2 as of Day0 + 7 gets a completion
\* on the day after that day.
C29_Witness ==
    /\ call.fn = "log_completion"
    /\ CallHabit.periodicity = STR_daily
    /\ AfterPeriod(CallHabit,
                   CallHabit.completion_dates[Len(CallHabit.completion_dates)],
                   Day0 + 7)
    /\ CompletedDays(BeforeLast(CallHabit)) = {Day0 + 6, Day0 + 7}
    /\ CompletedDays(CallHabit) = {Day0 + 6, Day0 + 7, Day0 + 8}
    /\ calculate_current_streak(CallHabit, Day0 + 7, Day0 + 14) = 2

\* A weekly habit completed in the week of today and the week before gets a
\* completion in a later ISO week.
C29_WitnessWeekly ==
    /\ call.fn = "log_completion"
    /\ CallHabit.periodicity \in WeeklyStrings
    /\ \E today \in Dates :
         /\ AfterPeriod(CallHabit,
                        CallHabit.completion_dates[Len(CallHabit.completion_dates)],
                        today)
         /\ WithoutLater(CallHabit, today) = BeforeLast(CallHabit)
         /\ calculate_current_streak(CallHabit, today, Day0 + 14) = 2

(***************************************************************************)
(* HabitManager: the habit list and the id index                           *)
(***************************************************************************)
\* The positions of the list self.habits that hold habit h.
ListedAt(h) == {i \in 1..Len(habits) : habits[i] = h}

\* C30: after every add_habit, remove_habit and log_completion, and after
\* a manager is built from the storage, the list habits and the dict
\* _habit_by_id hold the same habits: every listed habit is the one indexed
\* under its habit_id, every indexed habit is listed exactly once, and
\* habit_id_counter is at least every listed habit_id.
C30_ListAndIndexAgree ==
    /\ \A i \in 1..Len(habits) :
          /\ habits[i].habit_id \in DOMAIN habit_by_id
          /\ habit_by_id[habits[i].habit_id] = habits[i]
    /\ \A id \in DOMAIN habit_by_id : Cardinality(ListedAt(habit_by_id[id])) = 1
    /\ \A i \in 1..Len(habits) : habit_id_counter >= habits[i].habit_id

\* A manager built from a storage that holds habit 2, with a completion,
\* after habit 1 was deleted.
C30_Witness ==
    /\ call.fn = "HabitManager"
    /\ Len(habits) = 1
    /\ habits[1].habit_id = 2
    /\ habits[1].completion_dates # <<>>
    /\ DOMAIN habit_by_id = {2}
    /\ habit_id_counter = 2

\* remove_habit took the newest habit out: the counter stays above the ids
\* listed.
C30_WitnessRemoved ==
    /\ call.fn = "remove_habit"
    /\ call.ok
    /\ call.arg = 2
    /\ Len(habits) = 1
    /\ habits[1].habit_id = 1
    /\ DOMAIN habit_by_id = {1}
    /\ habit_id_counter = 2

====
